---- MODULE Spec2Model ----
(***************************************************************************)
(* Model of the navigator-ai server core: the DOM graph builder            *)
(* (processor.py), the compaction engine (optimizer3.py), the reference    *)
(* resolver (optimizer10.py) and the update_task endpoint (tasks.py).      *)
(*                                                                         *)
(* Python values are represented as follows.                               *)
(*   str        a sequence of one-character strings ("go" is <<"g","o">>), *)
(*              so that len, slicing, strip, split, startswith and `in`    *)
(*              are computed and not assumed                               *)
(*   None       the value None below, which is no str of the model         *)
(*   dict       a sequence of <<key, value>> pairs in insertion order      *)
(*   list       a sequence                                                 *)
(*   set        a set                                                      *)
(*   object     a record of its fields                                     *)
(***************************************************************************)
EXTENDS Integers, Sequences, FiniteSets, TLC

VARIABLES
    pc,         \* position of the update_task request / of the driver
    graph,      \* dom_state.element_tree handed to the compaction call
    mapper,     \* the EnhancedHighlightStyleMapper instance (its fields)
    result,     \* (summary, xpath_map, selector_map) as the caller holds it
    returned,   \* (summary, xpath_map, selector_map) as compaction returned it
    response,   \* the GenerateResponse object being resolved
    original,   \* the argument as the caller passed it: response or graph
    raised,     \* exception raised by the last call of the resolver, or None
    calls,      \* number of calls made so far (compactions or resolves)
    previous,   \* graph and result of the previous compaction call
    soup,       \* the parsed markup handed to parse_dom
    injected,   \* where exceptions were raised during parse_dom
    requests,   \* the concurrent update_task invocations
    instances,  \* the mapper objects of the concurrent invocations
    walk,       \* the loops of _extract_standalone_text in progress
    history     \* the Redis list of the task's history: one JSON text per record

\* no call of _extract_standalone_text in progress
NoWalk == [i |-> 0, current_id |-> <<"None">>, text_sections |-> <<>>, output_lines |-> <<>>]

vars == <<pc, graph, mapper, result, returned, response, original, raised, calls,
          previous, soup, injected, requests, instances, walk, history>>

-----------------------------------------------------------------------------
(* Python strings, None, dicts *)

None == <<"None">>

Truthy(v) == v # None /\ v # <<>>

s_body == <<"b","o","d","y">>
s_html == <<"h","t","m","l">>
s_div == <<"d","i","v">>
s_a == <<"a">>
s_A == <<"A">>
s_li == <<"l","i">>
s_ul == <<"u","l">>
s_p == <<"p">>
s_span == <<"s","p","a","n">>
s_input == <<"i","n","p","u","t">>
s_select == <<"s","e","l","e","c","t">>
s_textarea == <<"t","e","x","t","a","r","e","a">>
s_button == <<"b","u","t","t","o","n">>
s_id == <<"i","d">>
s_name == <<"n","a","m","e">>
s_type == <<"t","y","p","e">>
s_value == <<"v","a","l","u","e">>
s_placeholder == <<"p","l","a","c","e","h","o","l","d","e","r">>
s_href == <<"h","r","e","f">>
s_class == <<"c","l","a","s","s">>
s_title == <<"t","i","t","l","e">>
s_role == <<"r","o","l","e">>
s_style == <<"s","t","y","l","e">>
s_hidden == <<"h","i","d","d","e","n">>
s_text == <<"t","e","x","t">>
s_click == <<"c","l","i","c","k">>
s_scroll == <<"s","c","r","o","l","l">>
s_url == <<"u","r","l">>
s_go == <<"g","o">>
s_Go == <<"G","o">>
s_hi == <<"h","i">>
s_x == <<"/","x">>
s_q == <<"q">>
s_aria_label == <<"a","r","i","a","-","l","a","b","e","l">>
s_aria_placeholder == <<"a","r","i","a","-","p","l","a","c","e","h","o","l","d","e","r">>
s_aria_hidden == <<"a","r","i","a","-","h","i","d","d","e","n">>
s_true == <<"t","r","u","e">>
s_data_testid == <<"d","a","t","a","-","t","e","s","t","i","d">>
s_data_cy == <<"d","a","t","a","-","c","y">>
s_data_test == <<"d","a","t","a","-","t","e","s","t">>
s_data_qa == <<"d","a","t","a","-","q","a">>
s_javascript == <<"j","a","v","a","s","c","r","i","p","t",":">>
s_js == <<"j","s","-">>
s_TEXT_NODE == <<"T","E","X","T","_","N","O","D","E">>
s_unknown == <<"u","n","k","n","o","w","n">>
s_document == <<"[","d","o","c","u","m","e","n","t","]">>
s_old == <<"#","o","l","d">>
s_ten == <<"1","0">>

\* str.lower(), on the letters the model's inputs use
LowerChar(c) ==
    CASE c = "A" -> "a" [] c = "D" -> "d" [] c = "I" -> "i" [] c = "V" -> "v"
      [] c = "N" -> "n" [] c = "O" -> "o" [] c = "E" -> "e" [] c = "H" -> "h"
      [] OTHER -> c

Lower(s) == [i \in 1..Len(s) |-> LowerChar(s[i])]

\* s.startswith(prefix)
StartsWith(s, prefix) ==
    Len(prefix) <= Len(s) /\ SubSeq(s, 1, Len(prefix)) = prefix

\* sub in s
Contains(s, sub) ==
    \E i \in 1..(Len(s) + 1) :
        i + Len(sub) - 1 <= Len(s) /\ SubSeq(s, i, i + Len(sub) - 1) = sub

IsSpace(c) == c \in {" ", "\n", "\t"}

RECURSIVE LStrip(_)
LStrip(s) == IF s # <<>> /\ IsSpace(Head(s)) THEN LStrip(Tail(s)) ELSE s

RECURSIVE RStrip(_)
RStrip(s) ==
    IF s # <<>> /\ IsSpace(s[Len(s)]) THEN RStrip(SubSeq(s, 1, Len(s) - 1)) ELSE s

\* s.strip()
Strip(s) == RStrip(LStrip(s))

\* s.split(): the whitespace-separated tokens of s
RECURSIVE SplitFrom(_, _, _)
SplitFrom(s, token, acc) ==
    IF s = <<>> THEN (IF token = <<>> THEN acc ELSE Append(acc, token))
    ELSE IF IsSpace(Head(s))
         THEN SplitFrom(Tail(s), <<>>, IF token = <<>> THEN acc ELSE Append(acc, token))
         ELSE SplitFrom(Tail(s), Append(token, Head(s)), acc)

Split(s) == SplitFrom(s, <<>>, <<>>)

\* sep.join(parts)
RECURSIVE Join(_, _)
Join(sep, parts) ==
    IF parts = <<>> THEN <<>>
    ELSE IF Len(parts) = 1 THEN parts[1]
    ELSE parts[1] \o sep \o Join(sep, Tail(parts))

\* str(n) for n >= 0
RECURSIVE Str(_)
Str(n) == IF n < 10 THEN <<ToString(n)>> ELSE Str(n \div 10) \o <<ToString(n % 10)>>

DigitOf(c) == CHOOSE d \in 0..9 : ToString(d) = c

\* int(s) for a string of decimal digits
RECURSIVE Int_(_)
Int_(s) == IF s = <<>> THEN 0 ELSE 10 * Int_(SubSeq(s, 1, Len(s) - 1)) + DigitOf(s[Len(s)])

\* s[:n]
Prefix(s, n) == SubSeq(s, 1, IF n < Len(s) THEN n ELSE Len(s))

\* dict: key in d, d[key], d.get(key, default), d[key] = value
DictHas(d, k) == \E i \in 1..Len(d) : d[i][1] = k

DictGet(d, k, default) ==
    IF DictHas(d, k) THEN d[CHOOSE i \in 1..Len(d) : d[i][1] = k][2] ELSE default

DictSet(d, k, v) ==
    IF DictHas(d, k)
    THEN [i \in 1..Len(d) |-> IF d[i][1] = k THEN <<k, v>> ELSE d[i]]
    ELSE Append(d, <<k, v>>)

\* list.index(x): the first position whose item equals x (Python compares with ==)
ListIndex(seq, x) == CHOOSE i \in 1..Len(seq) : seq[i] = x /\ \A j \in 1..(i - 1) : seq[j] # x

-----------------------------------------------------------------------------
(* models/dom.py: the nodes of a DOMHashMap *)

ElementFields == {"tagName", "attributes", "xpath", "children",
                  "isInteractive", "isVisible", "isTopElement"}

TextFields == {"type", "text", "isVisible"}

DOMElementNode(tagName, attributes, xpath, children, isInteractive, isVisible, isTopElement) ==
    [cls |-> "DOMElementNode", tagName |-> tagName, attributes |-> attributes,
     xpath |-> xpath, children |-> children, isInteractive |-> isInteractive,
     isVisible |-> isVisible, isTopElement |-> isTopElement,
     type |-> None, text |-> None]

DOMTextNode(text, isVisible) ==
    [cls |-> "DOMTextNode", tagName |-> None, attributes |-> <<>>,
     xpath |-> None, children |-> <<>>, isInteractive |-> FALSE,
     isVisible |-> isVisible, isTopElement |-> FALSE,
     type |-> s_TEXT_NODE, text |-> text]

HasField(node, name) ==
    IF node.cls = "DOMElementNode" THEN name \in ElementFields ELSE name \in TextFields


\* the placeholder summaries of create_highlight_representation
s_no_elements == <<"N","o"," ","e","l","e","m","e","n","t","s"," ","f","o","u","n","d"," ","o","n"," ","p","a","g","e">>
s_no_root == <<"C","o","u","l","d"," ","n","o","t"," ","d","e","t","e","r","m","i","n","e"," ","r","o","o","t"," ","e","l","e","m","e","n","t">>
s_no_interactive == <<"N","o"," ","i","n","t","e","r","a","c","t","i","v","e"," ","e","l","e","m","e","n","t","s"," ","f","o","u","n","d"," ","o","n"," ","p","a","g","e">>
s_additional == <<"#"," ","A","d","d","i","t","i","o","n","a","l"," ","P","a","g","e"," ","T","e","x","t">>

-----------------------------------------------------------------------------
(* optimizer3.py: EnhancedHighlightStyleMapper *)

default_include_attributes ==
    <<s_id, s_name, s_type, s_value, s_placeholder, s_href,
      s_aria_label, s_aria_placeholder, s_role, s_title>>

\* EnhancedHighlightStyleMapper.__init__
NewMapper(include_attributes, max_depth) ==
    [include_attributes |->
         IF include_attributes = None \/ include_attributes = <<>>
         THEN default_include_attributes ELSE include_attributes,
     form_element_attributes |->
         <<s_placeholder, s_aria_label, s_aria_placeholder, s_title,
           s_name, s_role, s_type>>,
     max_depth |-> max_depth,
     element_map |-> <<>>,
     next_id |-> 1,
     xpath_map |-> <<>>,
     selector_map |-> <<>>,
     parent_map |-> <<>>,
     interactive_elements |-> {},
     max_text_length |-> 500]

is_text_node(element) ==
    IF HasField(element, "type") THEN element.type = s_TEXT_NODE ELSE FALSE

get_attr(element, attr_name, default) ==
    IF HasField(element, attr_name) THEN element[attr_name] ELSE default

\* key lookup of a child id: dom_hashmap keys are str, children are int, so
\* only str(child_id) can be a key
ChildKey(dom_hashmap, child_id) ==
    IF DictHas(dom_hashmap, Str(child_id)) THEN Str(child_id) ELSE None

\* first loop of _preprocess_dom: parent_map[str(child)] = elem_id
RECURSIVE link_children(_, _, _, _)
link_children(parent_map, dom_hashmap, elem_id, children) ==
    IF children = <<>> THEN parent_map
    ELSE link_children(
             IF ChildKey(dom_hashmap, Head(children)) = None
             THEN parent_map
             ELSE DictSet(parent_map, Str(Head(children)), elem_id),
             dom_hashmap, elem_id, Tail(children))

RECURSIVE build_parent_map(_, _, _)
build_parent_map(parent_map, dom_hashmap, i) ==
    IF i > Len(dom_hashmap) THEN parent_map
    ELSE LET elem_id == dom_hashmap[i][1]
             element == dom_hashmap[i][2]
         IN build_parent_map(
                IF is_text_node(element) THEN parent_map
                ELSE link_children(parent_map, dom_hashmap, elem_id,
                                   get_attr(element, "children", <<>>)),
                dom_hashmap, i + 1)

\* the same-tag element children of parent, as str ids (lines 364-378)
RECURSIVE same_tag_siblings(_, _, _)
same_tag_siblings(dom_hashmap, parent_children, tag_name) ==
    IF parent_children = <<>> THEN <<>>
    ELSE LET child_id == Head(parent_children)
             key == ChildKey(dom_hashmap, child_id)
             child == DictGet(dom_hashmap, key, None)
             hit == /\ key # None
                    /\ ~is_text_node(child)
                    /\ Lower(get_attr(child, "tagName", <<>>)) = tag_name
         IN (IF hit THEN <<Str(child_id)>> ELSE <<>>)
            \o same_tag_siblings(dom_hashmap, Tail(parent_children), tag_name)

FirstDataAttr(attributes) ==
    LET names == <<s_data_testid, s_data_cy, s_data_test, s_data_qa>>
        hits == {i \in 1..Len(names) : Truthy(DictGet(attributes, names[i], None))}
    IN IF hits = {} THEN None
       ELSE names[CHOOSE i \in hits : \A j \in hits : i <= j]

SpecificClasses(attributes) ==
    LET classes == Split(DictGet(attributes, s_class, <<>>))
    IN SelectSeq(classes, LAMBDA c : Len(c) > 3 /\ ~StartsWith(c, s_js))

\* lines 380-388: the element's position among its same-tag siblings
nth_of_type(parent_tag, tag_name, siblings, elem_id) ==
    IF \E k \in 1..Len(siblings) : siblings[k] = elem_id
    THEN parent_tag \o <<" ",">"," ">> \o tag_name
         \o <<":","n","t","h","-","o","f","-","t","y","p","e","(">>
         \o Str(ListIndex(siblings, elem_id)) \o <<")">>
    ELSE tag_name

\* lines 356-388, for a parent that is in the graph
selector_under(parent, tag_name, dom_hashmap, elem_id) ==
    IF Truthy(DictGet(get_attr(parent, "attributes", <<>>), s_id, None))
    THEN <<"#">> \o DictGet(get_attr(parent, "attributes", <<>>), s_id, None)
         \o <<" ",">"," ">> \o tag_name
    ELSE nth_of_type(Lower(get_attr(parent, "tagName", <<>>)), tag_name,
                     same_tag_siblings(dom_hashmap, get_attr(parent, "children", <<>>),
                                       tag_name),
                     elem_id)

\* lines 354-390: the selector by the parent, or the bare tag
parent_selector(parent_id, tag_name, dom_hashmap, elem_id) ==
    IF Truthy(parent_id) /\ DictHas(dom_hashmap, parent_id)
    THEN selector_under(DictGet(dom_hashmap, parent_id, None), tag_name,
                        dom_hashmap, elem_id)
    ELSE tag_name

\* lines 331-341: the selector of an input by type and name, or nothing
input_parts(attributes) ==
    (IF DictHas(attributes, s_type)
     THEN <<"[","t","y","p","e","=","'">> \o DictGet(attributes, s_type, None) \o <<"'","]">>
     ELSE <<>>)
    \o (IF DictHas(attributes, s_name)
        THEN <<"[","n","a","m","e","=","'">> \o DictGet(attributes, s_name, None) \o <<"'","]">>
        ELSE <<>>)

\* a synthesis that tries the class rule before the input and href rules
generate_selector_class_first(m, tag_name, attributes, dom_hashmap, elem_id) ==
    IF tag_name = <<>> THEN <<>>
    ELSE IF Truthy(DictGet(attributes, s_id, None))
    THEN <<"#">> \o DictGet(attributes, s_id, None)
    ELSE IF FirstDataAttr(attributes) # None
    THEN <<"[">> \o FirstDataAttr(attributes) \o <<"=","'">>
         \o DictGet(attributes, FirstDataAttr(attributes), None) \o <<"'","]">>
    ELSE IF Truthy(DictGet(attributes, s_class, None)) /\ SpecificClasses(attributes) # <<>>
    THEN tag_name \o <<".">> \o SpecificClasses(attributes)[1]
    ELSE IF tag_name = s_input /\ input_parts(attributes) # <<>>
    THEN tag_name \o input_parts(attributes)
    ELSE IF /\ tag_name = s_a
            /\ DictHas(attributes, s_href)
            /\ Len(DictGet(attributes, s_href, None)) < 50
            /\ ~StartsWith(DictGet(attributes, s_href, None), s_javascript)
    THEN <<"a","[","h","r","e","f","=","'">> \o DictGet(attributes, s_href, None)
         \o <<"'","]">>
    ELSE parent_selector(DictGet(m.parent_map, elem_id, None), tag_name,
                         dom_hashmap, elem_id)

\* _generate_selector
generate_selector(m, tag_name, attributes, dom_hashmap, elem_id) ==
    IF tag_name = <<>> THEN <<>>
    ELSE IF Truthy(DictGet(attributes, s_id, None))
    THEN <<"#">> \o DictGet(attributes, s_id, None)
    ELSE IF FirstDataAttr(attributes) # None
    THEN <<"[">> \o FirstDataAttr(attributes) \o <<"=","'">>
         \o DictGet(attributes, FirstDataAttr(attributes), None) \o <<"'","]">>
    ELSE IF tag_name = s_input /\ input_parts(attributes) # <<>>
    THEN tag_name \o input_parts(attributes)
    ELSE IF /\ tag_name = s_a
            /\ DictHas(attributes, s_href)
            /\ Len(DictGet(attributes, s_href, None)) < 50
            /\ ~StartsWith(DictGet(attributes, s_href, None), s_javascript)
    THEN <<"a","[","h","r","e","f","=","'">> \o DictGet(attributes, s_href, None)
         \o <<"'","]">>
    ELSE IF Truthy(DictGet(attributes, s_class, None)) /\ SpecificClasses(attributes) # <<>>
    THEN tag_name \o <<".">> \o SpecificClasses(attributes)[1]
    ELSE parent_selector(DictGet(m.parent_map, elem_id, None), tag_name,
                         dom_hashmap, elem_id)

form_tags == {s_input, s_select, s_textarea, s_button, s_a}

\* a registration that hands out the same identifier again
register_reusing(m, elem_id, element_id, xpath, selector) ==
    [m EXCEPT
        !.element_map = DictSet(@, elem_id, element_id),
        !.interactive_elements = @ \cup {elem_id},
        !.xpath_map = IF xpath # <<>> THEN DictSet(@, element_id, xpath) ELSE @,
        !.selector_map = IF selector # <<>> THEN DictSet(@, element_id, selector) ELSE @]

\* a registration that files the xpath under the identifier that comes next
register_misfiled(m, elem_id, element_id, xpath, selector) ==
    [m EXCEPT
        !.next_id = @ + 1,
        !.element_map = DictSet(@, elem_id, element_id),
        !.interactive_elements = @ \cup {elem_id},
        !.xpath_map = IF xpath # <<>>
                      THEN DictSet(@, <<"E">> \o Str(m.next_id + 1), xpath) ELSE @,
        !.selector_map = IF selector # <<>> THEN DictSet(@, element_id, selector) ELSE @]

\* lines 122-135: the element is given the next identifier
register(m, elem_id, element_id, xpath, selector) ==
    [m EXCEPT
        !.next_id = @ + 1,
        !.element_map = DictSet(@, elem_id, element_id),
        !.interactive_elements = @ \cup {elem_id},
        !.xpath_map = IF xpath # <<>> THEN DictSet(@, element_id, xpath) ELSE @,
        !.selector_map = IF selector # <<>> THEN DictSet(@, element_id, selector) ELSE @]

\* a second loop that does not look at isVisible
register_element_unseen(m, dom_hashmap, elem_id, element) ==
    IF is_text_node(element) THEN m
    ELSE IF ~(\/ get_attr(element, "isInteractive", FALSE)
              \/ Lower(get_attr(element, "tagName", <<>>)) \in form_tags)
    THEN m
    ELSE register(m, elem_id, <<"E">> \o Str(m.next_id),
                  get_attr(element, "xpath", <<>>),
                  generate_selector(m, Lower(get_attr(element, "tagName", <<>>)),
                                    get_attr(element, "attributes", <<>>),
                                    dom_hashmap, elem_id))

\* one iteration of the second loop of _preprocess_dom (lines 109-135)
register_element(m, dom_hashmap, elem_id, element) ==
    IF is_text_node(element) \/ ~get_attr(element, "isVisible", FALSE) THEN m
    ELSE IF ~(\/ get_attr(element, "isInteractive", FALSE)
              \/ Lower(get_attr(element, "tagName", <<>>)) \in form_tags)
    THEN m
    ELSE register(m, elem_id, <<"E">> \o Str(m.next_id),
                  get_attr(element, "xpath", <<>>),
                  generate_selector(m, Lower(get_attr(element, "tagName", <<>>)),
                                    get_attr(element, "attributes", <<>>),
                                    dom_hashmap, elem_id))

RECURSIVE register_from(_, _, _)
register_from(m, dom_hashmap, i) ==
    IF i > Len(dom_hashmap) THEN m
    ELSE register_from(
             register_element(m, dom_hashmap, dom_hashmap[i][1], dom_hashmap[i][2]),
             dom_hashmap, i + 1)

\* _preprocess_dom
preprocess_dom(m, dom_hashmap) ==
    register_from(
        [m EXCEPT !.parent_map = build_parent_map(@, dom_hashmap, 1)],
        dom_hashmap, 1)

\* _find_root_element: a key of dom_hashmap, or None
find_root_element(m, dom_hashmap) ==
    LET n == Len(dom_hashmap)
        tagged(t) == {i \in 1..n : /\ ~is_text_node(dom_hashmap[i][2])
                                   /\ Lower(get_attr(dom_hashmap[i][2], "tagName", <<>>)) = t}
        orphans == {i \in 1..n : ~DictHas(m.parent_map, dom_hashmap[i][1])}
        first(S) == dom_hashmap[CHOOSE i \in S : \A j \in S : i <= j][1]
    IN IF tagged(s_body) # {} THEN first(tagged(s_body))
       ELSE IF tagged(s_html) # {} THEN first(tagged(s_html))
       ELSE IF orphans # {} THEN first(orphans)
       ELSE IF n > 0 THEN dom_hashmap[1][1]
       ELSE None

\* _has_highlighted_parent; seen bounds the walk of the model on a parent_map
\* with a cycle, where the code's loop does not end
RECURSIVE highlighted_from(_, _, _)
highlighted_from(m, current_id, seen) ==
    IF ~Truthy(current_id) \/ current_id \in seen THEN FALSE
    ELSE IF current_id \in m.interactive_elements THEN TRUE
    ELSE highlighted_from(m, DictGet(m.parent_map, current_id, None), seen \cup {current_id})

has_highlighted_parent(m, elem_id) ==
    highlighted_from(m, DictGet(m.parent_map, elem_id, None), {})

\* collect_text of _get_text_till_next_highlighted; acc is (visited, text_parts)
RECURSIVE collect_text(_, _, _, _, _, _)
RECURSIVE collect_children(_, _, _, _, _, _)
\* a traversal that walks on into the other registered elements
collect_text_through(m, dom_hashmap, elem_id, node_id, current_depth, acc) ==
    IF current_depth > m.max_depth THEN acc
    ELSE IF node_id \in acc.visited \/ ~DictHas(dom_hashmap, node_id) THEN acc
    ELSE IF /\ is_text_node(DictGet(dom_hashmap, node_id, None))
            /\ get_attr(DictGet(dom_hashmap, node_id, None), "isVisible", FALSE)
    THEN [visited |-> acc.visited \cup {node_id},
          text_parts |->
              IF Strip(get_attr(DictGet(dom_hashmap, node_id, None), "text", <<>>)) # <<>>
              THEN Append(acc.text_parts,
                          Strip(get_attr(DictGet(dom_hashmap, node_id, None), "text", <<>>)))
              ELSE acc.text_parts]
    ELSE IF ~is_text_node(DictGet(dom_hashmap, node_id, None))
    THEN collect_children(m, dom_hashmap, elem_id,
                          get_attr(DictGet(dom_hashmap, node_id, None), "children", <<>>),
                          current_depth,
                          [acc EXCEPT !.visited = @ \cup {node_id}])
    ELSE [acc EXCEPT !.visited = @ \cup {node_id}]

collect_text(m, dom_hashmap, elem_id, node_id, current_depth, acc) ==
    IF current_depth > m.max_depth THEN acc
    ELSE IF node_id \in acc.visited \/ ~DictHas(dom_hashmap, node_id) THEN acc
    ELSE LET seen == [acc EXCEPT !.visited = @ \cup {node_id}]
             node == DictGet(dom_hashmap, node_id, None)
             text == Strip(get_attr(node, "text", <<>>))
         IN IF node_id # elem_id /\ node_id \in m.interactive_elements THEN seen
            ELSE IF is_text_node(node) /\ get_attr(node, "isVisible", FALSE)
            THEN (IF text # <<>>
                  THEN [seen EXCEPT !.text_parts = Append(@, text)] ELSE seen)
            ELSE IF ~is_text_node(node)
            THEN collect_children(m, dom_hashmap, elem_id,
                                  get_attr(node, "children", <<>>), current_depth, seen)
            ELSE seen

collect_children(m, dom_hashmap, elem_id, children, current_depth, acc) ==
    IF children = <<>> THEN acc
    ELSE LET child_key == ChildKey(dom_hashmap, Head(children))
         IN collect_children(m, dom_hashmap, elem_id, Tail(children), current_depth,
                IF Truthy(child_key)
                THEN collect_text(m, dom_hashmap, elem_id, child_key, current_depth + 1, acc)
                ELSE acc)

\* lines 215-220: the collected parts joined, stripped and truncated
truncate_owned(m, text) ==
    IF text # <<>> /\ Len(text) > m.max_text_length
    THEN Prefix(text, m.max_text_length - 3) \o <<".",".",".">>
    ELSE text

\* _get_text_till_next_highlighted
get_text_till_next_highlighted(m, elem_id, dom_hashmap) ==
    truncate_owned(m,
        Strip(Join(<<" ">>,
                   collect_text(m, dom_hashmap, elem_id, elem_id, 0,
                                [visited |-> {}, text_parts |-> <<>>]).text_parts)))

is_form_element(element) ==
    Lower(get_attr(element, "tagName", <<>>)) \in {s_input, s_textarea, s_select}

\* the attr_values of _format_interactive_element (lines 241-259)
RECURSIVE form_attr_values(_, _)
form_attr_values(keys, attributes) ==
    IF keys = <<>> THEN <<>>
    ELSE (IF Truthy(DictGet(attributes, Head(keys), None))
          THEN <<Head(keys) \o <<"=">> \o DictGet(attributes, Head(keys), None)>>
          ELSE <<>>)
         \o form_attr_values(Tail(keys), attributes)

RECURSIVE plain_attr_values(_, _, _, _)
plain_attr_values(items, include_attributes, tag_name, element_text) ==
    IF items = <<>> THEN <<>>
    ELSE LET key == Head(items)[1]
             value == Head(items)[2]
             keep == /\ \E k \in 1..Len(include_attributes) : include_attributes[k] = key
                     /\ value # <<>>
                     /\ value # tag_name
                     /\ ~(element_text # <<>> /\ Contains(element_text, value))
         IN (IF keep THEN <<value>> ELSE <<>>)
            \o plain_attr_values(Tail(items), include_attributes, tag_name, element_text)

attr_values(m, tag_name, attributes, form, element_text) ==
    IF m.include_attributes = <<>> THEN <<>>
    ELSE IF form
    THEN form_attr_values(m.form_element_attributes, attributes)
         \o (IF tag_name = s_input /\ DictHas(attributes, s_type)
             THEN <<DictGet(attributes, s_type, None)>> ELSE <<>>)
         \o (IF Truthy(DictGet(attributes, s_value, None))
             THEN << <<"v","a","l","u","e","=","'">>
                     \o DictGet(attributes, s_value, None) \o <<"'">> >>
             ELSE <<>>)
    ELSE plain_attr_values(attributes, m.include_attributes, tag_name, element_text)

\* lines 269-277: the text of a form element that owns none
form_text(attributes, form, element_text) ==
    LET hints == SelectSeq(<<s_placeholder, s_aria_label, s_title>>,
                           LAMBDA a : Truthy(DictGet(attributes, a, None)))
    IN IF form /\ element_text = <<>> /\ hints # <<>>
       THEN <<"[">> \o DictGet(attributes, hints[1], None) \o <<"]">>
       ELSE element_text

\* lines 264-287: the line assembled
element_line(element_id, tag_name, attributes_str, element_text) ==
    <<"[">> \o element_id \o <<"]","<">> \o tag_name \o <<" ">>
    \o attributes_str
    \o (IF element_text # <<>>
        THEN (IF attributes_str # <<>> THEN <<">">> ELSE <<>>) \o element_text
        ELSE <<>>)
    \o <<"/",">">>

format_with_text(m, element_id, tag_name, attributes, form, element_text) ==
    element_line(element_id, tag_name,
                 Join(<<" ">>, attr_values(m, tag_name, attributes, form, element_text)),
                 form_text(attributes, form, element_text))

\* _format_interactive_element: the line of one element, or None
format_interactive_element(m, elem_id, element, dom_hashmap) ==
    IF ~Truthy(DictGet(m.element_map, elem_id, None)) THEN None
    ELSE format_with_text(m, DictGet(m.element_map, elem_id, None),
                          Lower(get_attr(element, "tagName", <<>>)),
                          get_attr(element, "attributes", <<>>),
                          is_form_element(element),
                          get_text_till_next_highlighted(m, elem_id, dom_hashmap))

\* lines 305-312: the bullet of one text
standalone_line(m, text) ==
    <<"-"," ">> \o (IF Len(text) > m.max_text_length
                    THEN Prefix(text, m.max_text_length) \o <<".",".",".">>
                    ELSE text)

\* _extract_standalone_text: the bulleted lines.  The keys of a dict are
\* distinct, so text_nodes_processed never holds the key at hand (line 298).
RECURSIVE standalone_from(_, _, _)
standalone_from(m, dom_hashmap, i) ==
    IF i > Len(dom_hashmap) THEN <<>>
    ELSE LET elem_id == dom_hashmap[i][1]
             element == dom_hashmap[i][2]
             text == Strip(get_attr(element, "text", <<>>))
             listed == /\ is_text_node(element)
                       /\ get_attr(element, "isVisible", FALSE)
                       /\ ~has_highlighted_parent(m, elem_id)
                       /\ text # <<>>
                       /\ ~(Len(text) < 15)
         IN (IF listed THEN <<standalone_line(m, text)>> ELSE <<>>)
            \o standalone_from(m, dom_hashmap, i + 1)

extract_standalone_text(m, dom_hashmap) == standalone_from(m, dom_hashmap, 1)

\* a reset that lets the identifier counter run on
reset_keeping_counter(m) ==
    [m EXCEPT !.element_map = <<>>, !.xpath_map = <<>>, !.selector_map = <<>>,
              !.parent_map = <<>>, !.interactive_elements = {}]

\* a reset that leaves the two returned maps and the parent index as they were
reset_keeping_maps(m) ==
    [m EXCEPT !.element_map = <<>>, !.interactive_elements = {}, !.next_id = 1]

\* lines 43-48 of create_highlight_representation
reset_registries(m) ==
    [m EXCEPT !.element_map = <<>>, !.xpath_map = <<>>, !.selector_map = <<>>,
              !.parent_map = <<>>, !.interactive_elements = {}, !.next_id = 1]

\* int(self.element_map[x][1:]), the sort key of line 58
SortKey(m, elem_id) == Int_(Tail(DictGet(m.element_map, elem_id, <<"E","0">>)))

\* sorted(self.interactive_elements, key=...)
RECURSIVE sorted_interactive(_, _)
sorted_interactive(m, elems) ==
    IF elems = {} THEN <<>>
    ELSE LET least == CHOOSE e \in elems :
                          \A f \in elems : SortKey(m, e) <= SortKey(m, f)
         IN <<least>> \o sorted_interactive(m, elems \ {least})

line_or_nothing(line) == IF Truthy(line) THEN <<line>> ELSE <<>>

\* lines 58-65: one line per registered element
RECURSIVE element_lines(_, _, _)
element_lines(m, dom_hashmap, elem_ids) ==
    IF elem_ids = <<>> THEN <<>>
    ELSE (IF \/ ~DictHas(dom_hashmap, Head(elem_ids))
             \/ is_text_node(DictGet(dom_hashmap, Head(elem_ids), None))
          THEN <<>>
          ELSE line_or_nothing(
                   format_interactive_element(
                       m, Head(elem_ids), DictGet(dom_hashmap, Head(elem_ids), None),
                       dom_hashmap)))
         \o element_lines(m, dom_hashmap, Tail(elem_ids))

\* lines 67-72: the element lines followed by the additional-text section
output_lines(lines, standalone_text) ==
    lines
    \o (IF standalone_text # <<>>
        THEN (IF lines # <<>> THEN << <<>> >> ELSE <<>>)
             \o <<s_additional>> \o standalone_text
        ELSE <<>>)

\* a return that hands out the registries next to the no-root placeholder
returned_tuple_leaking(m, root_id, lines) ==
    IF ~Truthy(root_id) THEN <<s_no_root, m.xpath_map, m.selector_map>>
    ELSE IF lines = <<>> THEN <<s_no_interactive, <<>>, <<>> >>
    ELSE <<Join(<<"\n">>, lines), m.xpath_map, m.selector_map>>

\* lines 53-54 and 74-78: the tuple returned
returned_tuple(m, root_id, lines) ==
    IF ~Truthy(root_id) THEN <<s_no_root, <<>>, <<>> >>
    ELSE IF lines = <<>> THEN <<s_no_interactive, <<>>, <<>> >>
    ELSE <<Join(<<"\n">>, lines), m.xpath_map, m.selector_map>>

\* lines 52-78: the value returned once the registries are built
render(m, dom_hashmap) ==
    returned_tuple(
        m, find_root_element(m, dom_hashmap),
        output_lines(
            element_lines(m, dom_hashmap, sorted_interactive(m, m.interactive_elements)),
            extract_standalone_text(m, dom_hashmap)))

\* a compaction that takes out of the graph the texts it has given to an
\* element
built_and_rendered_consuming(built, dom_hashmap) ==
    [mapper |-> built, ret |-> render(built, dom_hashmap),
     dom_hashmap |-> SelectSeq(dom_hashmap,
                         LAMBDA item : ~(/\ is_text_node(item[2])
                                         /\ has_highlighted_parent(built, item[1])))]

\* lines 50-78; dom_hashmap is the caller's dict as the call leaves it: the
\* call reads it and writes nothing into it
built_and_rendered(built, dom_hashmap) ==
    [mapper |-> built, ret |-> render(built, dom_hashmap), dom_hashmap |-> dom_hashmap]

\* create_highlight_representation: the instance after the call, the
\* (summary, xpath_map, selector_map) it returns, and the caller's dict
create_highlight_representation(m, dom_hashmap) ==
    IF dom_hashmap = <<>>
    THEN [mapper |-> m, ret |-> <<s_no_elements, <<>>, <<>> >>,
          dom_hashmap |-> dom_hashmap]
    ELSE built_and_rendered(preprocess_dom(reset_registries(m), dom_hashmap),
                            dom_hashmap)

\* key_attributes of build_user_message (prompts.py line 61)
key_attributes == <<s_id, s_name, s_type, s_value, s_placeholder, s_href>>

\* generate_enhanced_highlight_dom, called by build_user_message with the
\* default max_depth: its local mapper after the call, and what it returns
generate_enhanced_highlight_dom(element_tree, include_attributes) ==
    create_highlight_representation(NewMapper(include_attributes, 10), element_tree)

-----------------------------------------------------------------------------
(* The parsed markup (bs4).  A Tag is a record of its name, attrs and      *)
(* contents; a NavigableString has a string and no name.  A node of a soup *)
(* is addressed by its path, the child positions from the BeautifulSoup    *)
(* object down; its parent is the path without the last position.  Tag     *)
(* equality in bs4 is structural (same name, attrs and contents), which is *)
(* equality of these records.                                              *)

Tag(name, attrs, contents) ==
    [name |-> name, attrs |-> attrs, contents |-> contents, string |-> None]

NavigableString(string) ==
    [name |-> None, attrs |-> <<>>, contents |-> <<>>, string |-> string]

BeautifulSoup(contents) == Tag(s_document, <<>>, contents)

\* an attribute value: html.parser gives class as a list of tokens
AttrStr(s) == [list |-> FALSE, v |-> s]

AttrList(tokens) == [list |-> TRUE, v |-> tokens]

IsTag(node) == node.name # None

RECURSIVE NodeAt(_, _)
NodeAt(root, path) ==
    IF path = <<>> THEN root ELSE NodeAt(root.contents[Head(path)], Tail(path))

Parent(path) == SubSeq(path, 1, Len(path) - 1)

\* element.get(name, default) and element.has_attr(name)
TagGet(element, name, default) == DictGet(element.attrs, name, default)

HasAttr(element, name) == DictHas(element.attrs, name)

\* the str the filters see for an attribute that holds a str
TagGetStr(element, name, default) ==
    IF HasAttr(element, name) THEN TagGet(element, name, None).v ELSE default

\* the paths of the tags of the soup, in document order
RECURSIVE TagPaths(_, _)
RECURSIVE TagPathsOfChildren(_, _, _)
TagPaths(root, path) ==
    LET node == NodeAt(root, path)
    IN IF ~IsTag(node) THEN <<>>
       ELSE <<path>> \o TagPathsOfChildren(root, path, 1)

TagPathsOfChildren(root, path, k) ==
    IF k > Len(NodeAt(root, path).contents) THEN <<>>
    ELSE TagPaths(root, Append(path, k)) \o TagPathsOfChildren(root, path, k + 1)

\* the paths of the tags named body, in document order: soup.body is the
\* first of them, and None when there is none
BodyPaths(root) ==
    SelectSeq(Tail(TagPaths(root, <<>>)), LAMBDA p : NodeAt(root, p).name = s_body)

-----------------------------------------------------------------------------
(* filters.py *)

s_display_none == <<"d","i","s","p","l","a","y",":","n","o","n","e">>
s_visibility_hidden == <<"v","i","s","i","b","i","l","i","t","y",":","h","i","d","d","e","n">>
s_tabindex == <<"t","a","b","i","n","d","e","x">>
s_minus_one == <<"-","1">>
s_onclick == <<"o","n","c","l","i","c","k">>
s_ng_click == <<"n","g","-","c","l","i","c","k">>
s_at_click == <<"@","c","l","i","c","k">>
s_v_on_click == <<"v","-","o","n",":","c","l","i","c","k">>
s_aria_expanded == <<"a","r","i","a","-","e","x","p","a","n","d","e","d">>
s_aria_pressed == <<"a","r","i","a","-","p","r","e","s","s","e","d">>
s_aria_selected == <<"a","r","i","a","-","s","e","l","e","c","t","e","d">>
s_aria_checked == <<"a","r","i","a","-","c","h","e","c","k","e","d">>
s_draggable == <<"d","r","a","g","g","a","b","l","e">>
s_aria_role == <<"a","r","i","a","-","r","o","l","e">>
s_data_action == <<"d","a","t","a","-","a","c","t","i","o","n">>
s_address_input == <<"a","d","d","r","e","s","s","-","i","n","p","u","t","_","_","c","o","n","t","a","i","n","e","r","_","_","i","n","p","u","t">>
s_dropdown_select == <<"a","-","d","r","o","p","d","o","w","n","-","s","e","l","e","c","t">>
s_dropdown_button == <<"a","-","d","r","o","p","d","o","w","n","-","b","u","t","t","o","n">>
s_z_index_a == <<"z","-","i","n","d","e","x",":","-">>
s_z_index_b == <<"z","-","i","n","d","e","x",":"," ","-">>

hidden_classes == {
    <<"h","i","d","d","e","n">>, <<"i","n","v","i","s","i","b","l","e">>,
    <<"d","i","s","p","l","a","y","n","o","n","e">>, <<"n","o","d","i","s","p","l","a","y">>}

interactive_elements == {
    <<"a">>, <<"b","u","t","t","o","n">>, <<"d","e","t","a","i","l","s">>, <<"e","m","b","e","d">>,
    <<"i","n","p","u","t">>, <<"l","a","b","e","l">>, <<"m","e","n","u">>, <<"m","e","n","u","i","t","e","m">>,
    <<"o","b","j","e","c","t">>, <<"s","e","l","e","c","t">>, <<"t","e","x","t","a","r","e","a">>, <<"s","u","m","m","a","r","y">>}

interactive_roles == {
    <<"b","u","t","t","o","n">>, <<"m","e","n","u">>,
    <<"m","e","n","u","i","t","e","m">>, <<"l","i","n","k">>,
    <<"c","h","e","c","k","b","o","x">>, <<"r","a","d","i","o">>,
    <<"s","l","i","d","e","r">>, <<"t","a","b">>,
    <<"t","a","b","p","a","n","e","l">>, <<"t","e","x","t","b","o","x">>,
    <<"c","o","m","b","o","b","o","x">>, <<"g","r","i","d">>,
    <<"l","i","s","t","b","o","x">>, <<"o","p","t","i","o","n">>,
    <<"p","r","o","g","r","e","s","s","b","a","r">>, <<"s","c","r","o","l","l","b","a","r">>,
    <<"s","e","a","r","c","h","b","o","x">>, <<"s","w","i","t","c","h">>,
    <<"t","r","e","e">>, <<"t","r","e","e","i","t","e","m">>,
    <<"s","p","i","n","b","u","t","t","o","n">>, <<"t","o","o","l","t","i","p">>,
    <<"a","-","b","u","t","t","o","n","-","i","n","n","e","r">>, <<"a","-","d","r","o","p","d","o","w","n","-","b","u","t","t","o","n">>,
    <<"c","l","i","c","k">>, <<"m","e","n","u","i","t","e","m","c","h","e","c","k","b","o","x">>,
    <<"m","e","n","u","i","t","e","m","r","a","d","i","o">>, <<"a","-","b","u","t","t","o","n","-","t","e","x","t">>,
    <<"b","u","t","t","o","n","-","t","e","x","t">>, <<"b","u","t","t","o","n","-","i","c","o","n">>,
    <<"b","u","t","t","o","n","-","i","c","o","n","-","o","n","l","y">>, <<"b","u","t","t","o","n","-","t","e","x","t","-","i","c","o","n","-","o","n","l","y">>,
    <<"d","r","o","p","d","o","w","n">>}

ClassNames(element) ==
    LET class_attr == TagGet(element, s_class, AttrList(<<>>))
    IN IF class_attr.list THEN class_attr.v ELSE Split(class_attr.v)

\* is_element_visible
is_element_visible(element) ==
    LET style_attr == Lower(TagGetStr(element, s_style, <<>>))
        class_names == ClassNames(element)
    IN IF Contains(style_attr, s_display_none) \/ Contains(style_attr, s_visibility_hidden)
       THEN FALSE
       ELSE IF HasAttr(element, s_hidden) \/ TagGetStr(element, s_aria_hidden, None) = s_true
       THEN FALSE
       ELSE IF \E i \in 1..Len(class_names) :
                   \E h \in hidden_classes : Contains(Lower(class_names[i]), h)
       THEN FALSE
       ELSE TRUE

\* is_top_element
is_top_element(element) ==
    LET tag_name == Lower(element.name)
        style_attr == Lower(TagGetStr(element, s_style, <<>>))
    IN IF tag_name \in {s_body, s_html} THEN FALSE
       ELSE IF Contains(style_attr, s_z_index_a) \/ Contains(style_attr, s_z_index_b)
       THEN FALSE
       ELSE TRUE

\* is_text_node_visible, for the string at path
is_text_node_visible(root, path) ==
    LET text_node == NodeAt(root, path)
    IN IF text_node.string = <<>> \/ Strip(text_node.string) = <<>> THEN FALSE
       ELSE IF path = <<>> \/ ~is_element_visible(NodeAt(root, Parent(path))) THEN FALSE
       ELSE TRUE

\* a decision without the second look at the parent (lines 196-199)
is_interactive_element_unguarded(root, path) ==
    LET element == NodeAt(root, path)
        tag_name == Lower(element.name)
        role == TagGetStr(element, s_role, <<>>)
        aria_role == TagGetStr(element, s_aria_role, <<>>)
        tab_index == TagGetStr(element, s_tabindex, None)
        class_list == ClassNames(element)
        has_address_input_class ==
            \E i \in 1..Len(class_list) : class_list[i] = s_address_input
        parent_tag == IF path # <<>> /\ Truthy(NodeAt(root, Parent(path)).name)
                      THEN Lower(NodeAt(root, Parent(path)).name) ELSE <<>>
        has_interactive_role ==
            \/ has_address_input_class
            \/ tag_name \in interactive_elements
            \/ role \in interactive_roles
            \/ aria_role \in interactive_roles
            \/ (tab_index # None /\ tab_index # s_minus_one /\ parent_tag # s_body)
            \/ TagGetStr(element, s_data_action, None) = s_dropdown_select
            \/ TagGetStr(element, s_data_action, None) = s_dropdown_button
        has_click_handler ==
            \/ HasAttr(element, s_onclick)
            \/ HasAttr(element, s_ng_click)
            \/ HasAttr(element, s_at_click)
            \/ HasAttr(element, s_v_on_click)
        has_aria_props ==
            \/ HasAttr(element, s_aria_expanded)
            \/ HasAttr(element, s_aria_pressed)
            \/ HasAttr(element, s_aria_selected)
            \/ HasAttr(element, s_aria_checked)
        is_draggable == TagGetStr(element, s_draggable, None) = s_true
    IN IF tag_name = s_body THEN FALSE
       ELSE IF has_interactive_role THEN TRUE
       ELSE has_aria_props \/ has_click_handler \/ is_draggable

\* is_interactive_element, for the tag at path
is_interactive_element(root, path) ==
    LET element == NodeAt(root, path)
        tag_name == Lower(element.name)
        role == TagGetStr(element, s_role, <<>>)
        aria_role == TagGetStr(element, s_aria_role, <<>>)
        tab_index == TagGetStr(element, s_tabindex, None)
        class_list == ClassNames(element)
        has_address_input_class ==
            \E i \in 1..Len(class_list) : class_list[i] = s_address_input
        parent_tag == IF path # <<>> /\ Truthy(NodeAt(root, Parent(path)).name)
                      THEN Lower(NodeAt(root, Parent(path)).name) ELSE <<>>
        has_interactive_role ==
            \/ has_address_input_class
            \/ tag_name \in interactive_elements
            \/ role \in interactive_roles
            \/ aria_role \in interactive_roles
            \/ (tab_index # None /\ tab_index # s_minus_one /\ parent_tag # s_body)
            \/ TagGetStr(element, s_data_action, None) = s_dropdown_select
            \/ TagGetStr(element, s_data_action, None) = s_dropdown_button
        has_click_handler ==
            \/ HasAttr(element, s_onclick)
            \/ HasAttr(element, s_ng_click)
            \/ HasAttr(element, s_at_click)
            \/ HasAttr(element, s_v_on_click)
        has_aria_props ==
            \/ HasAttr(element, s_aria_expanded)
            \/ HasAttr(element, s_aria_pressed)
            \/ HasAttr(element, s_aria_selected)
            \/ HasAttr(element, s_aria_checked)
        is_draggable == TagGetStr(element, s_draggable, None) = s_true
    IN IF tag_name = s_body THEN FALSE
       ELSE IF has_interactive_role THEN TRUE
       ELSE IF tag_name = s_body \/ parent_tag = s_body THEN FALSE
       ELSE has_aria_props \/ has_click_handler \/ is_draggable

-----------------------------------------------------------------------------
(* processor.py *)

\* the siblings of line 25: the children of the parent whose name is part
SameNameSiblings(root, path, part) ==
    SelectSeq(NodeAt(root, Parent(path)).contents, LAMBDA sibling : sibling.name = part)

\* one step of the loop of get_xpath_for_element: the part of the tag at path
XPathPart(root, path) ==
    LET current == NodeAt(root, path)
        part == Lower(current.name)
        siblings == SameNameSiblings(root, path, part)
    IN IF path # <<>> /\ Len(siblings) > 1
       THEN part \o <<"[">> \o Str(ListIndex(siblings, current)) \o <<"]">>
       ELSE part

RECURSIVE XPathParts(_, _)
XPathParts(root, path) ==
    (IF path = <<>> THEN <<>> ELSE XPathParts(root, Parent(path)))
    \o <<XPathPart(root, path)>>

\* get_xpath_for_element; failed is an exception inside its try block
get_xpath_for_element(root, path, failed) ==
    IF failed THEN <<"/">> \o s_unknown
    ELSE <<"/">> \o Join(<<"/">>, SelectSeq(XPathParts(root, path),
                                            LAMBDA part : part # s_document))

\* lines 99-107: the attributes of a tag as str -> str
RECURSIVE ExtractAttributes(_)
ExtractAttributes(attrs) ==
    IF attrs = <<>> THEN <<>>
    ELSE LET attr_name == Head(attrs)[1]
             attr_value == Head(attrs)[2]
         IN << <<attr_name, IF attr_value.list THEN Join(<<" ">>, attr_value.v)
                            ELSE attr_value.v>> >>
            \o ExtractAttributes(Tail(attrs))

NoFaults ==
    [before |-> {}, children |-> {}, xpath |-> {}, attributes |-> {}, interactive |-> {},
     fatal |-> FALSE]

\* lines 100-111: the items of node.attrs read before the loop fails, all of
\* them when it does not fail
attrs_read(attrs, path, faults) ==
    IF \E k \in 1..Len(attrs) : <<path, k>> \in faults.attributes
    THEN SubSeq(attrs, 1, (CHOOSE k \in 1..Len(attrs) : <<path, k>> \in faults.attributes) - 1)
    ELSE attrs

\* process_node of parse_dom.  st is (dom_hash_map, current_id, ret), ret the
\* value returned.  faults names the places where an exception is raised:
\* before   paths whose node fails between lines 69 and 141 (caught line 158)
\* children <<path, k>>: the loop of line 147 fails before its k-th child
\* xpath    paths whose XPath computation fails (caught line 38)
\* attributes <<path, k>>: the loop of line 102 fails at its k-th attribute
\*          (caught line 109)
\* interactive paths whose is_interactive_element fails inside (caught at
\*          filters.py line 212, which gives False)
RECURSIVE process_node(_, _, _, _)
RECURSIVE process_children(_, _, _, _, _, _)
\* a process_node that stores a text node also when nothing is left of the
\* text after strip()
process_node_keeping_blank(root, path, st, faults) ==
    LET node == NodeAt(root, path)
        node_id == st.current_id
        next == [st EXCEPT !.current_id = @ + 1]
        element_node ==
            DOMElementNode(Lower(node.name),
                           ExtractAttributes(attrs_read(node.attrs, path, faults)),
                           get_xpath_for_element(root, path, path \in faults.xpath),
                           <<>>,
                           path \notin faults.interactive /\ is_interactive_element(root, path),
                           is_element_visible(node),
                           is_top_element(node))
    IN IF path \in faults.before THEN [next EXCEPT !.ret = -1]
       ELSE IF ~IsTag(node)
       THEN [next EXCEPT
                !.dom_hash_map =
                    DictSet(@, Str(node_id),
                            DOMTextNode(Strip(node.string), is_text_node_visible(root, path))),
                !.ret = node_id]
       ELSE [process_children(root, path, 1, node_id,
                              [next EXCEPT !.dom_hash_map =
                                               DictSet(@, Str(node_id), element_node)],
                              faults)
                EXCEPT !.ret = node_id]

process_node(root, path, st, faults) ==
    LET node == NodeAt(root, path)
        node_id == st.current_id
        next == [st EXCEPT !.current_id = @ + 1]
        text == Strip(node.string)
        tag_name == Lower(node.name)
        element_node ==
            DOMElementNode(tag_name, ExtractAttributes(attrs_read(node.attrs, path, faults)),
                           get_xpath_for_element(root, path, path \in faults.xpath),
                           <<>>,
                           path \notin faults.interactive /\ is_interactive_element(root, path),
                           is_element_visible(node),
                           is_top_element(node))
        stored == [next EXCEPT !.dom_hash_map = DictSet(@, Str(node_id), element_node)]
    IN IF ~IsTag(node)
       THEN IF text = <<>> \/ path \in faults.before
            THEN [next EXCEPT !.ret = -1]
            ELSE [next EXCEPT
                     !.dom_hash_map =
                         DictSet(@, Str(node_id),
                                 DOMTextNode(text, is_text_node_visible(root, path))),
                     !.ret = node_id]
       ELSE IF path \in faults.before
       THEN [next EXCEPT !.ret = -1]
       ELSE [process_children(root, path, 1, node_id, stored, faults)
                EXCEPT !.ret = node_id]

\* a loop that records the value returned for a child also when it is -1
process_children_unfiltered(root, path, k, node_id, st, faults) ==
    IF k > Len(NodeAt(root, path).contents) \/ <<path, k>> \in faults.children
    THEN st
    ELSE LET done == process_node(root, Append(path, k), st, faults)
             element_node == DictGet(done.dom_hash_map, Str(node_id), None)
         IN process_children(root, path, k + 1, node_id,
                [done EXCEPT !.dom_hash_map =
                    DictSet(@, Str(node_id),
                            [element_node EXCEPT !.children = Append(@, done.ret)])],
                faults)

\* a loop that puts each child identifier at the front of the list
process_children_prepending(root, path, k, node_id, st, faults) ==
    IF k > Len(NodeAt(root, path).contents) \/ <<path, k>> \in faults.children
    THEN st
    ELSE LET done == process_node(root, Append(path, k), st, faults)
             element_node == DictGet(done.dom_hash_map, Str(node_id), None)
         IN process_children(root, path, k + 1, node_id,
                IF done.ret # -1
                THEN [done EXCEPT !.dom_hash_map =
                         DictSet(@, Str(node_id),
                                 [element_node EXCEPT !.children = <<done.ret>> \o @])]
                ELSE done,
                faults)

\* lines 147-150: the children of the tag at path, from the k-th on
process_children(root, path, k, node_id, st, faults) ==
    IF k > Len(NodeAt(root, path).contents) \/ <<path, k>> \in faults.children
    THEN st
    ELSE LET done == process_node(root, Append(path, k), st, faults)
             element_node == DictGet(done.dom_hash_map, Str(node_id), None)
         IN process_children(root, path, k + 1, node_id,
                IF done.ret # -1
                THEN [done EXCEPT !.dom_hash_map =
                         DictSet(@, Str(node_id),
                                 [element_node EXCEPT !.children = Append(@, done.ret)])]
                ELSE done,
                faults)

\* a parse that, finding no body, starts from the document itself
parse_dom_from_document(root, faults) ==
    LET bodies == BodyPaths(root)
    IN IF faults.fatal THEN <<>>
       ELSE process_node(root, IF bodies = <<>> THEN <<>> ELSE bodies[1],
                         [dom_hash_map |-> <<>>, current_id |-> 0, ret |-> -1],
                         faults).dom_hash_map

\* parse_dom, on the soup BeautifulSoup(html_content, 'html.parser') built
parse_dom(root, faults) ==
    LET bodies == BodyPaths(root)
    IN IF faults.fatal THEN <<>>
       ELSE IF bodies = <<>> THEN <<>>
       ELSE process_node(root, bodies[1],
                         [dom_hash_map |-> <<>>, current_id |-> 0, ret |-> -1],
                         faults).dom_hash_map

-----------------------------------------------------------------------------
(* llm.py: Action, GenerateResponse; optimizer10.py: the resolver *)

ActionFields == {"type", "element_id", "xpath_ref", "selector", "text", "amount", "url"}

\* Action(type=..., ...): the fields not given are None
Action(type, element_id, xpath_ref, selector, text, amount, url) ==
    [type |-> type, element_id |-> element_id, xpath_ref |-> xpath_ref,
     selector |-> selector, text |-> text, amount |-> amount, url |-> url]

\* getattr(obj, name, None)
AttrOf(obj, name) == IF name \in DOMAIN obj THEN obj[name] ELSE None

\* obj.name = value on a pydantic model: a name that is no field of the model
\* raises ValueError and leaves the object as it was
SetAttr(obj, name, value) ==
    IF name \in ActionFields
    THEN [obj |-> [obj EXCEPT ![name] = value], raised |-> None]
    ELSE [obj |-> obj, raised |-> <<"ValueError">>]

\* obj.selector = selector_map[element_id] if element_id in selector_map
SetSelector(done, element_id, selector_map) ==
    IF done.raised = None /\ DictHas(selector_map, element_id)
    THEN SetAttr(done.obj, "selector", DictGet(selector_map, element_id, None))
    ELSE done

\* the body of the loop of process_element_references (lines 402-419)
resolve_action(action, xpath_map, selector_map) ==
    LET unchanged == [obj |-> action, raised |-> None]
    IN IF Truthy(action.element_id)
       THEN SetSelector(
                IF DictHas(xpath_map, action.element_id)
                THEN SetAttr(action, "xpath_ref",
                             DictGet(xpath_map, action.element_id, None))
                ELSE unchanged,
                action.element_id, selector_map)
       ELSE IF Truthy(action.xpath_ref)
       THEN SetSelector(
                IF DictHas(xpath_map, action.xpath_ref)
                THEN SetAttr(action, "xpath",
                             DictGet(xpath_map, action.xpath_ref, None))
                ELSE unchanged,
                action.xpath_ref, selector_map)
       ELSE unchanged

\* the loop of line 401 from the i-th action on; it ends at the first exception
RECURSIVE resolve_from(_, _, _, _)
resolve_from(actions, i, xpath_map, selector_map) ==
    IF i > Len(actions) THEN [actions |-> actions, raised |-> None]
    ELSE LET done == resolve_action(actions[i], xpath_map, selector_map)
             now == [actions EXCEPT ![i] = done.obj]
         IN IF done.raised # None THEN [actions |-> now, raised |-> done.raised]
            ELSE resolve_from(now, i + 1, xpath_map, selector_map)

\* a resolver that appends the resolved actions to the list instead of
\* writing into the actions it was given
process_element_references_appending(response_json, xpath_map, selector_map) ==
    LET done == resolve_from(response_json.actions, 1, xpath_map, selector_map)
    IN [response |-> [response_json EXCEPT !.actions = @ \o done.actions],
        xpath_map |-> xpath_map,
        selector_map |-> selector_map,
        raised |-> done.raised]

\* a resolver that consumes the entries of xpathMap it has looked up
process_element_references_popping(response_json, xpath_map, selector_map) ==
    LET done == resolve_from(response_json.actions, 1, xpath_map, selector_map)
    IN [response |-> [response_json EXCEPT !.actions = done.actions],
        xpath_map |-> SelectSeq(xpath_map,
                         LAMBDA item : \A k \in 1..Len(response_json.actions) :
                                          response_json.actions[k].element_id # item[1]),
        selector_map |-> selector_map,
        raised |-> done.raised]

\* process_element_references: the response object, the two maps and the
\* exception raised, after the call
process_element_references(response_json, xpath_map, selector_map) ==
    LET done == resolve_from(response_json.actions, 1, xpath_map, selector_map)
    IN [response |-> [response_json EXCEPT !.actions = done.actions],
        xpath_map |-> xpath_map,
        selector_map |-> selector_map,
        raised |-> done.raised]

-----------------------------------------------------------------------------
(* Inputs: documents, element trees and agent responses *)

s_fifteen == <<"f","i","f","t","e","e","n"," ","l","e","t","t","e","r","s","!">>
s_xpath_a == <<"/","b","o","d","y","/","a">>
s_xpath_div == <<"/","b","o","d","y","/","d","i","v">>
s_xpath_body == <<"/","b","o","d","y">>
s_E1 == <<"E","1">>
s_E2 == <<"E","2">>
s_E9 == <<"E","9">>

Txt(string) == NavigableString(string)

\* <a href="/x">x</a>
LinkX == Tag(s_a, << <<s_href, AttrStr(s_x)>> >>, <<Txt(<<"x">>)>>)

\* <li>a</li> and <li>b</li>
ItemA == Tag(s_li, <<>>, <<Txt(<<"a">>)>>)

ItemB == Tag(s_li, <<>>, <<Txt(<<"b">>)>>)

\* <button id="go">Go</button>
ButtonGo == Tag(s_button, << <<s_id, AttrStr(s_go)>> >>, <<Txt(s_Go)>>)

\* <div>hi</div>
DivHi == Tag(s_div, <<>>, <<Txt(s_hi)>>)

\* <div><li>a</li>   <li>a</li></div>
DivItems == Tag(s_div, <<>>, <<ItemA, Txt(<<" "," ">>), ItemA>>)

\* <input type="text" name="q" placeholder="go">
InputQ == Tag(s_input, << <<s_type, AttrStr(s_text)>>, <<s_name, AttrStr(s_q)>>,
                           <<s_placeholder, AttrStr(s_go)>> >>, <<>>)

\* <div class="hidden"><a href="/x">x</a>fifteen letters!</div>
HiddenDiv == Tag(s_div, << <<s_class, AttrList(<<s_hidden>>)>> >>,
                 <<LinkX, Txt(s_fifteen)>>)

\* <p>fifteen letters!<span tabindex="0">hi</span></p>
Paragraph == Tag(s_p, <<>>,
                 <<Txt(s_fifteen),
                   Tag(s_span, << <<s_tabindex, AttrStr(<<"0">>)>> >>, <<Txt(s_hi)>>)>>)

\* <a href="/x" style="display:none">x</a>
HiddenLink == Tag(s_a, << <<s_href, AttrStr(s_x)>>, <<s_style, AttrStr(s_display_none)>> >>,
                  <<Txt(<<"x">>)>>)

Body(contents) == Tag(s_body, <<>>, contents)

Html(contents) == Tag(s_html, <<>>, contents)

s_box == <<"b","o","x">>
s_field == <<"f","i","e","l","d">>
s_wide == <<"w","i","d","e">>
s_abc == <<"a","b","c">>
s_js_x == <<"j","s","-","x">>

\* a page on which several rules of the selector synthesis hold for one
\* element: <div id="box"><button>Go</button><input id="go" type="text"
\* name="q" class="field"></div><a href="/x" class="field" data-testid="t">x</a>
\* <input type="text" class="field"><a href="/x" class="field">x</a>
\* <a class="js-x abc wide">x</a><button>Go</button>
SelectorPage ==
    Body(<<Tag(s_div, << <<s_id, AttrStr(s_box)>> >>,
               <<Tag(s_button, <<>>, <<Txt(s_Go)>>),
                 Tag(s_input, << <<s_id, AttrStr(s_go)>>, <<s_type, AttrStr(s_text)>>,
                                 <<s_name, AttrStr(s_q)>>,
                                 <<s_class, AttrList(<<s_field>>)>> >>, <<>>)>>),
           Tag(s_a, << <<s_href, AttrStr(s_x)>>, <<s_class, AttrList(<<s_field>>)>>,
                       <<s_data_testid, AttrStr(<<"t">>)>> >>, <<Txt(<<"x">>)>>),
           Tag(s_input, << <<s_type, AttrStr(s_text)>>,
                           <<s_class, AttrList(<<s_field>>)>> >>, <<>>),
           Tag(s_a, << <<s_href, AttrStr(s_x)>>, <<s_class, AttrList(<<s_field>>)>> >>,
               <<Txt(<<"x">>)>>),
           Tag(s_a, << <<s_class, AttrList(<<s_js_x, s_abc, s_wide>>)>> >>,
               <<Txt(<<"x">>)>>),
           Tag(s_button, <<>>, <<Txt(s_Go)>>)>>)

\* <a href="/x">x<button>Go</button>fifteen letters!</a>
NestedLink == Tag(s_a, << <<s_href, AttrStr(s_x)>> >>,
                  <<Txt(<<"x">>), Tag(s_button, <<>>, <<Txt(s_Go)>>), Txt(s_fifteen)>>)

\* the documents the compaction and resolver specifications draw from
SampleSoups ==
    <<BeautifulSoup(<<Body(<<ButtonGo>>)>>),
      BeautifulSoup(<<Body(<<DivHi>>)>>),
      BeautifulSoup(<<Html(<<Body(<<Tag(s_ul, <<>>, <<LinkX, LinkX>>)>>)>>)>>),
      BeautifulSoup(<<Body(<<InputQ, HiddenDiv, Paragraph>>)>>),
      BeautifulSoup(<<Body(<<ButtonGo, Paragraph, LinkX>>)>>),
      BeautifulSoup(<<Body(<<HiddenLink, DivHi, ButtonGo>>)>>),
      BeautifulSoup(<<SelectorPage>>),
      BeautifulSoup(<<Body(<<NestedLink, DivHi>>)>>)>>

\* element trees as the browser extension sends them (update.structure)
PayloadNoRoot ==
    << << <<>>, DOMElementNode(s_body, <<>>, s_xpath_body, <<1>>, FALSE, TRUE, FALSE)>>,
       << <<"1">>, DOMElementNode(s_button, <<>>, s_xpath_a, <<>>, TRUE, TRUE, TRUE)>> >>

PayloadPartial ==
    << << <<"0">>, DOMElementNode(s_body, <<>>, s_xpath_body, <<1, 2, 7>>, FALSE, TRUE, FALSE)>>,
       << <<"1">>, DOMElementNode(s_A, <<>>, <<>>, <<3>>, FALSE, TRUE, TRUE)>>,
       << <<"2">>, DOMElementNode(<<>>, <<>>, s_xpath_div, <<>>, TRUE, TRUE, TRUE)>>,
       << <<"3">>, DOMTextNode(s_fifteen, TRUE)>> >>

PayloadTextOnly ==
    << << <<"0">>, DOMTextNode(s_fifteen, TRUE)>>,
       << <<"1">>, DOMTextNode(s_hi, TRUE)>> >>

SampleGraphs ==
    {parse_dom(SampleSoups[i], NoFaults) : i \in 1..Len(SampleSoups)}
    \cup {<<>>, PayloadNoRoot, PayloadPartial, PayloadTextOnly}

\* what generate() can return
current_state ==
    [page_summary |-> s_hi, evaluation_previous_goal |-> s_unknown, next_goal |-> s_go]

ActionSamples ==
    {Action(s_click, s_E1, None, None, None, None, None),
     Action(s_input, s_E2, None, None, s_hi, None, None),
     Action(s_click, s_E9, None, None, None, None, None),
     Action(s_click, None, s_E1, None, None, None, None),
     Action(s_click, None, s_E2, None, None, None, None),
     Action(s_click, <<>>, s_E9, s_old, None, None, None),
     Action(s_input, s_E2, s_E1, s_old, s_hi, None, None),
     Action(s_scroll, None, None, None, None, s_ten, None),
     Action(s_url, None, None, None, None, None, s_x)}

RECURSIVE SeqsUpTo(_, _)
SeqsUpTo(S, n) ==
    IF n = 0 THEN {<<>>}
    ELSE LET shorter == SeqsUpTo(S, n - 1)
         IN shorter \cup {Append(s, x) : s \in shorter, x \in S}

-----------------------------------------------------------------------------
(* Bounds *)

\* actions in one agent response
MaxActions == 2

\* calls of the resolver on one response
MaxResolves == 2

\* compaction calls on one mapper instance
MaxCalls == 3

\* children of body in a generated document
MaxChildren == 2

-----------------------------------------------------------------------------
(* tasks.py: one update_task request.  The resolver is called once by the   *)
(* endpoint; the specification lets it be called again on the same object.  *)

Responses ==
    {[current_state |-> current_state, actions |-> actions, is_done |-> is_done] :
        actions \in SeqsUpTo(ActionSamples, MaxActions), is_done \in BOOLEAN}

Init ==
    /\ pc = "start"
    /\ graph = <<>>
    /\ mapper = None
    /\ result = None
    /\ returned = None
    /\ response = None
    /\ original = None
    /\ raised = None
    /\ calls = 0
    /\ previous = None
    /\ soup = None
    /\ injected = NoFaults
    /\ requests = <<>>
    /\ instances = <<>>
    /\ walk = NoWalk
    /\ history = <<>>

\* lines 40-55: dom_state is built and build_user_message compacts it
BuildUserMessage(element_tree) ==
    /\ pc = "start"
    /\ \E built \in {generate_enhanced_highlight_dom(element_tree, key_attributes)} :
          /\ mapper' = built.mapper
          /\ returned' = built.ret
          /\ result' = built.ret
          /\ graph' = built.dom_hashmap
    /\ pc' = "prompted"
    /\ UNCHANGED <<response, original, raised, calls, previous, soup, injected,
                   requests, instances, walk, history>>

\* line 61: the model's answer
Generate(answer) ==
    /\ pc = "prompted"
    /\ response' = answer
    /\ original' = answer
    /\ pc' = "generated"
    /\ UNCHANGED <<graph, mapper, result, returned, raised, calls, previous, soup,
                   injected, requests, instances, walk, history>>

\* line 67: process_element_references(result, xpath_map, selector_map)
ProcessElementReferences ==
    /\ pc \in {"generated", "resolved"}
    /\ calls < MaxResolves
    /\ LET done == process_element_references(response, result[2], result[3])
       IN /\ response' = done.response
          /\ result' = <<result[1], done.xpath_map, done.selector_map>>
          /\ raised' = done.raised
    /\ calls' = calls + 1
    /\ pc' = "resolved"
    /\ UNCHANGED <<graph, mapper, returned, original, previous, soup, injected,
                   requests, instances, walk, history>>

Next ==
    \/ \E element_tree \in SampleGraphs : BuildUserMessage(element_tree)
    \/ \E answer \in Responses : Generate(answer)
    \/ ProcessElementReferences

Spec == Init /\ [][Next]_vars

-----------------------------------------------------------------------------
(* optimizer3.py: one EnhancedHighlightStyleMapper instance called again    *)
(* and again                                                                *)

InitMapper ==
    /\ pc = "constructed"
    /\ graph = <<>>
    /\ mapper = NewMapper(key_attributes, 10)
    /\ result = None
    /\ returned = None
    /\ response = None
    /\ original = None
    /\ raised = None
    /\ calls = 0
    /\ previous = [graph |-> <<>>, result |-> None]
    /\ soup = None
    /\ injected = NoFaults
    /\ requests = <<>>
    /\ instances = <<>>
    /\ walk = NoWalk
    /\ history = <<>>

\* mapper.create_highlight_representation(dom_hashmap); original keeps the
\* graph as the caller passed it
CreateHighlightRepresentation(dom_hashmap) ==
    /\ pc \in {"constructed", "called"}
    /\ calls < MaxCalls
    /\ \E done \in {create_highlight_representation(mapper, dom_hashmap)} :
          /\ mapper' = done.mapper
          /\ result' = done.ret
          /\ graph' = done.dom_hashmap
    /\ original' = dom_hashmap
    /\ previous' = [graph |-> graph, result |-> result]
    /\ calls' = calls + 1
    /\ pc' = "called"
    /\ UNCHANGED <<returned, response, raised, soup, injected, requests, instances, walk, history>>

NextMapper ==
    \E dom_hashmap \in SampleGraphs : CreateHighlightRepresentation(dom_hashmap)

SpecMapper == InitMapper /\ [][NextMapper]_vars

\* the xpath_map and the selector_map of a returned tuple
XPathMapOf(ret) == ret[2]

SelectorMapOf(ret) == ret[3]

\* C6: two successive compaction calls on the identical graph return the same
\* summary, the same identifier-to-xpath pairs and the same
\* identifier-to-selector pairs, the pairs in the same order.
IdentifierStability ==
    (calls >= 2 /\ previous.graph = graph) => previous.result = result

\* the same graph compacted twice in a row, two identifiers assigned each time
IdentifierStabilityWitness ==
    /\ calls >= 2
    /\ previous.graph = graph
    /\ Len(XPathMapOf(result)) >= 2
    /\ Len(SelectorMapOf(result)) >= 2

\* C7: whatever calls came before, a call returns what a freshly constructed
\* instance returns on the same graph; the identifiers of a call that went
\* past its reset are E1, E2, ... in order and its parent index is the one of
\* the graph of this call alone.
NoStateSurvives ==
    pc = "called" =>
        /\ result = create_highlight_representation(NewMapper(key_attributes, 10),
                                                    graph).ret
        /\ graph # <<>> =>
              /\ \A k \in 1..Len(mapper.element_map) :
                    mapper.element_map[k][2] = <<"E">> \o Str(k)
              /\ mapper.parent_map = build_parent_map(<<>>, graph, 1)
              /\ \A k \in 1..Len(mapper.xpath_map) :
                    \E e \in 1..Len(mapper.element_map) :
                        mapper.element_map[e][2] = mapper.xpath_map[k][1]

\* a call on a graph that registers fewer elements than the graph of the call
\* before it, which had filled both maps
NoStateSurvivesWitness ==
    /\ calls >= 2
    /\ previous.graph # graph
    /\ Len(XPathMapOf(previous.result)) > Len(XPathMapOf(result))
    /\ Len(SelectorMapOf(previous.result)) > Len(SelectorMapOf(result))
    /\ Len(XPathMapOf(result)) >= 1

-----------------------------------------------------------------------------
(* processor.py: parse_dom on one document *)

\* what a document's body is filled from
Templates == {ItemA, ItemB, LinkX, ButtonGo, DivItems, Txt(<<" "," ">>), Txt(s_hi)}

\* <body onclick tabindex="0" role="button"> with direct children that rely
\* on one attribute each, and a <div> holding the same elements one level down
Attributed(name, attr, value) == Tag(name, << <<attr, AttrStr(value)>> >>, <<>>)

AttributeCases(name) ==
    <<Attributed(name, s_tabindex, <<"0">>),
      Attributed(name, s_tabindex, s_minus_one),
      Attributed(name, s_onclick, s_go),
      Attributed(name, s_aria_expanded, s_true),
      Attributed(name, s_draggable, s_true),
      Attributed(name, s_draggable, s_hi)>>

RoleCases(name) ==
    <<Attributed(name, s_role, s_button),
      Attributed(name, s_aria_role, s_button),
      Attributed(name, s_role, s_hi),
      Tag(name, << <<s_class, AttrList(<<s_address_input>>)>> >>, <<>>),
      Attributed(name, s_data_action, s_dropdown_select),
      Tag(name, <<>>, <<>>),
      Tag(s_button, <<>>, <<>>)>>

AttributedBody(contents) ==
    Tag(s_body, << <<s_onclick, AttrStr(s_go)>>, <<s_tabindex, AttrStr(<<"0">>)>>,
                   <<s_role, AttrStr(s_button)>> >>, contents)

InteractivePages ==
    {BeautifulSoup(<<AttributedBody(AttributeCases(s_span))>>),
     BeautifulSoup(<<AttributedBody(RoleCases(s_span))>>),
     BeautifulSoup(<<AttributedBody(<<Tag(s_div, <<>>, AttributeCases(s_span))>>)>>),
     BeautifulSoup(<<AttributedBody(<<Tag(s_div, <<>>, RoleCases(s_span))>>)>>)}

\* <body>...</body> alone, the same inside <html>, and a document without body
Documents ==
    {BeautifulSoup(<<Body(contents)>>) : contents \in SeqsUpTo(Templates, MaxChildren)}
    \cup {BeautifulSoup(<<Html(<<Body(contents)>>)>>) :
             contents \in SeqsUpTo(Templates, MaxChildren)}
    \cup {BeautifulSoup(<<DivHi>>)}
    \cup InteractivePages

\* the paths of the nodes below path, path included
RECURSIVE NodePaths(_, _)
NodePaths(root, path) ==
    {path} \cup
    (IF IsTag(NodeAt(root, path))
     THEN UNION {NodePaths(root, Append(path, k)) :
                    k \in 1..Len(NodeAt(root, path).contents)}
     ELSE {})

\* the exceptions one run of parse_dom can meet: none, one inside a node, one
\* in a loop over children, one in an XPath computation, or a fatal one
FaultChoices(root) ==
    LET paths == NodePaths(root, <<>>) \ {<<>>}
        tags == {p \in paths : IsTag(NodeAt(root, p))}
    IN {NoFaults, [NoFaults EXCEPT !.fatal = TRUE]}
       \cup {[NoFaults EXCEPT !.before = {p}] : p \in paths}
       \cup {[NoFaults EXCEPT !.xpath = {p}] : p \in tags}
       \cup {[NoFaults EXCEPT !.interactive = {p}] : p \in tags}
       \cup UNION {{[NoFaults EXCEPT !.attributes = {<<p, k>>}] :
                       k \in 1..Len(NodeAt(root, p).attrs)} : p \in tags}
       \cup UNION {{[NoFaults EXCEPT !.children = {<<p, k>>}] :
                       k \in 1..Len(NodeAt(root, p).contents)} : p \in tags}

InitParse ==
    /\ pc = "html"
    /\ soup \in Documents
    /\ graph = <<>>
    /\ mapper = None
    /\ result = None
    /\ returned = None
    /\ response = None
    /\ original = None
    /\ raised = None
    /\ calls = 0
    /\ previous = None
    /\ injected = NoFaults
    /\ requests = <<>>
    /\ instances = <<>>
    /\ walk = NoWalk
    /\ history = <<>>

\* parse_dom(html_content)
ParseDom(faults) ==
    /\ pc = "html"
    /\ graph' = parse_dom(soup, faults)
    /\ injected' = faults
    /\ pc' = "parsed"
    /\ UNCHANGED <<mapper, result, returned, response, original, raised, calls,
                   previous, soup, requests, instances, walk, history>>

s_blank == <<" "," "," "," "," "," "," "," "," "," "," "," "," "," "," "," ">>

\* a structure of the extension with whitespace-only texts: one between the
\* two texts of a button, one of sixteen blanks directly under the body
PayloadBlank ==
    << << <<"0">>, DOMElementNode(s_body, <<>>, s_xpath_body, <<1, 5, 6>>, FALSE, TRUE, FALSE)>>,
       << <<"1">>, DOMElementNode(s_button, <<>>, s_xpath_a, <<2, 3, 4>>, TRUE, TRUE, TRUE)>>,
       << <<"2">>, DOMTextNode(<<"a">>, TRUE)>>,
       << <<"3">>, DOMTextNode(<<" "," ">>, TRUE)>>,
       << <<"4">>, DOMTextNode(<<"b">>, TRUE)>>,
       << <<"5">>, DOMTextNode(s_blank, TRUE)>>,
       << <<"6">>, DOMTextNode(s_fifteen, TRUE)>> >>

\* what the extension can submit without asking parse_dom
SubmittedStructures == {PayloadBlank, PayloadPartial, PayloadTextOnly}

\* build_user_message on the structure of an update: the graph parse_dom
\* returned for the page, or a structure of the extension's own
Compact(structure) ==
    /\ pc \in {"html", "parsed"}
    /\ pc = "parsed" => structure = graph
    /\ pc = "html" => structure \in SubmittedStructures
    /\ \E done \in {generate_enhanced_highlight_dom(structure, key_attributes)} :
          /\ mapper' = done.mapper
          /\ result' = done.ret
          /\ graph' = done.dom_hashmap
    /\ pc' = "compacted"
    /\ UNCHANGED <<returned, response, original, raised, calls, previous, soup,
                   injected, requests, instances, walk, history>>

NextParse ==
    \/ \E faults \in FaultChoices(soup) : ParseDom(faults)
    \/ \E structure \in {graph} \cup SubmittedStructures : Compact(structure)

SpecParse == InitParse /\ [][NextParse]_vars

\* the nodes parse_dom stores for the subtree at path when nothing fails
RECURSIVE StoredBelow(_, _)
RECURSIVE StoredAmong(_, _, _)
StoredBelow(root, path) ==
    IF IsTag(NodeAt(root, path)) THEN 1 + StoredAmong(root, path, 1)
    ELSE IF Strip(NodeAt(root, path).string) = <<>> THEN 0 ELSE 1

StoredAmong(root, path, k) ==
    IF k > Len(NodeAt(root, path).contents) THEN 0
    ELSE StoredBelow(root, Append(path, k)) + StoredAmong(root, path, k + 1)

\* the element children of the i-th node of the graph that carry tag_name
SameTagChildren(i, tag_name) ==
    SelectSeq(graph[i][2].children,
              LAMBDA c : /\ DictHas(graph, Str(c))
                         /\ ~is_text_node(DictGet(graph, Str(c), None))
                         /\ DictGet(graph, Str(c), None).tagName = tag_name)

\* C9: in a document parsed without failure, two distinct element children of
\* one element that carry the same tag have different xpaths; each such child
\* has the xpath of its parent followed by /tag[n], n its own 1-based position
\* among the same-tag children, and a child without same-tag sibling has the
\* xpath of its parent followed by /tag.
SiblingXPathsDistinct ==
    (pc = "parsed" /\ injected = NoFaults) =>
        \A i \in 1..Len(graph) :
            ~is_text_node(graph[i][2]) =>
                \A a \in 1..Len(graph[i][2].children) :
                    LET child == DictGet(graph, Str(graph[i][2].children[a]), None)
                        same == SameTagChildren(i, child.tagName)
                    IN ~is_text_node(child) =>
                          /\ \A b \in 1..Len(same) :
                                same[b] # graph[i][2].children[a] =>
                                    DictGet(graph, Str(same[b]), None).xpath # child.xpath
                          /\ child.xpath =
                                graph[i][2].xpath \o <<"/">> \o child.tagName
                                \o (IF Len(same) > 1
                                    THEN <<"[">> \o Str(ListIndex(same, graph[i][2].children[a]))
                                         \o <<"]">>
                                    ELSE <<>>)

\* C10: the graph parse_dom returns has one node per identifier handed out
\* (a document parsed without failure has as many nodes as it has elements
\* and non-empty texts below body), its keys are pairwise different, and
\* every child identifier of every element is, as decimal text, a key of the
\* graph; this holds too when a node, a loop over children or an XPath
\* computation fails.
GraphIntegrity ==
    pc = "parsed" =>
        /\ \A i, j \in 1..Len(graph) : graph[i][1] = graph[j][1] => i = j
        /\ (injected = NoFaults /\ BodyPaths(soup) # <<>>) =>
               Len(graph) = StoredBelow(soup, BodyPaths(soup)[1])
        /\ \A i \in 1..Len(graph) :
               ~is_text_node(graph[i][2]) =>
                   \A a \in 1..Len(graph[i][2].children) :
                       /\ graph[i][2].children[a] >= 0
                       /\ DictHas(graph, Str(graph[i][2].children[a]))

\* a parse that skipped an empty text node and lost a node to a failure, and
\* still returned elements with children
GraphIntegrityWitness ==
    /\ pc = "parsed"
    /\ injected.before # {}
    /\ \E p \in NodePaths(soup, <<>>) \ {<<>>} :
          ~IsTag(NodeAt(soup, p)) /\ Strip(NodeAt(soup, p).string) = <<>>
    /\ \E i \in 1..Len(graph) :
          ~is_text_node(graph[i][2]) /\ Len(graph[i][2].children) >= 2

-----------------------------------------------------------------------------
(* tasks.py, prompts.py, optimizer3.py: two update_task requests whose       *)
(* compaction calls interleave statement by statement                        *)

Requests == {1, 2}

\* a mapper that every request would share
SharedMapper(r) == 1

\* line 401 of optimizer3.py: the mapper is a local of the call of request r
MapperOf(r) == r

\* the element trees of the two requests
ConcurrentTrees ==
    {<<>>, PayloadPartial, PayloadNoRoot,
     parse_dom(SampleSoups[1], NoFaults), parse_dom(SampleSoups[3], NoFaults)}

InitConcurrent ==
    /\ pc = "serving"
    /\ graph = <<>>
    /\ mapper = None
    /\ result = None
    /\ returned = None
    /\ response = None
    /\ original = None
    /\ raised = None
    /\ calls = 0
    /\ previous = None
    /\ soup = None
    /\ injected = NoFaults
    /\ requests = [r \in Requests |-> [at |-> "idle", tree |-> <<>>, i |-> 0, ret |-> None]]
    /\ instances = <<>>
    /\ walk = NoWalk
    /\ history = <<>>

\* update_task lines 40-55 down to optimizer3.py line 401: the request
\* arrives and generate_enhanced_highlight_dom constructs its mapper
Construct(r, element_tree) ==
    /\ requests[r].at = "idle"
    /\ requests' = [requests EXCEPT ![r] = [@ EXCEPT !.at = "constructed",
                                                     !.tree = element_tree]]
    /\ instances' = (MapperOf(r) :> NewMapper(key_attributes, 10)) @@ instances
    /\ UNCHANGED <<pc, graph, mapper, result, returned, response, original, raised,
                   calls, previous, soup, injected, walk, history>>

\* lines 40-48: the placeholder of an empty graph, or the registries reset
Reset(r) ==
    /\ requests[r].at = "constructed"
    /\ IF requests[r].tree = <<>>
       THEN /\ requests' = [requests EXCEPT ![r] =
                               [@ EXCEPT !.at = "done",
                                         !.ret = <<s_no_elements, <<>>, <<>> >>]]
            /\ UNCHANGED instances
       ELSE /\ requests' = [requests EXCEPT ![r] = [@ EXCEPT !.at = "reset"]]
            /\ instances' = [instances EXCEPT ![MapperOf(r)] = reset_registries(@)]
    /\ UNCHANGED <<pc, graph, mapper, result, returned, response, original, raised,
                   calls, previous, soup, injected, walk, history>>

\* lines 100-106: the first loop of _preprocess_dom
BuildParentMap(r) ==
    /\ requests[r].at = "reset"
    /\ instances' = [instances EXCEPT ![MapperOf(r)] =
                        [@ EXCEPT !.parent_map =
                            build_parent_map(@, requests[r].tree, 1)]]
    /\ requests' = [requests EXCEPT ![r] = [@ EXCEPT !.at = "registering", !.i = 1]]
    /\ UNCHANGED <<pc, graph, mapper, result, returned, response, original, raised,
                   calls, previous, soup, injected, walk, history>>

\* lines 109-135: one iteration of the second loop, or its end
Register(r) ==
    /\ requests[r].at = "registering"
    /\ IF requests[r].i > Len(requests[r].tree)
       THEN /\ requests' = [requests EXCEPT ![r] = [@ EXCEPT !.at = "registered"]]
            /\ UNCHANGED instances
       ELSE /\ instances' = [instances EXCEPT ![MapperOf(r)] =
                                register_element(@, requests[r].tree,
                                                 requests[r].tree[requests[r].i][1],
                                                 requests[r].tree[requests[r].i][2])]
            /\ requests' = [requests EXCEPT ![r] = [@ EXCEPT !.i = @ + 1]]
    /\ UNCHANGED <<pc, graph, mapper, result, returned, response, original, raised,
                   calls, previous, soup, injected, walk, history>>

\* lines 52-78: the summary is rendered and the tuple returned
Render(r) ==
    /\ requests[r].at = "registered"
    /\ requests' = [requests EXCEPT ![r] =
                       [@ EXCEPT !.at = "done",
                                 !.ret = render(instances[MapperOf(r)],
                                                requests[r].tree)]]
    /\ UNCHANGED <<pc, graph, mapper, result, returned, response, original, raised,
                   calls, previous, soup, injected, instances, walk, history>>

NextConcurrent ==
    \E r \in Requests :
        \/ \E element_tree \in ConcurrentTrees : Construct(r, element_tree)
        \/ Reset(r)
        \/ BuildParentMap(r)
        \/ Register(r)
        \/ Render(r)

SpecConcurrent == InitConcurrent /\ [][NextConcurrent]_vars

\* C8: whatever the other request did in between, a request whose
\* registration loop has ended holds in its mapper exactly the registries,
\* parent index and identifier counter that compaction of its own element
\* tree builds alone, and a request that is done has returned the (summary,
\* xpath_map, selector_map) that compaction of its own tree returns alone.
ConcurrentIsolation ==
    \A r \in Requests :
        /\ requests[r].at = "registered" =>
               instances[MapperOf(r)] =
                   preprocess_dom(NewMapper(key_attributes, 10), requests[r].tree)
        /\ requests[r].at = "done" =>
               requests[r].ret =
                   generate_enhanced_highlight_dom(requests[r].tree, key_attributes).ret

\* both requests are inside compaction at once, on different trees: the first
\* has ended its registration loop and not yet returned, the second is in the
\* middle of its own, and each has registered an element
ConcurrentIsolationWitness ==
    /\ requests[1].at = "registered"
    /\ requests[2].at = "registering"
    /\ requests[2].i >= 2
    /\ requests[1].tree # requests[2].tree
    /\ \A r \in Requests : instances[MapperOf(r)].next_id >= 2

-----------------------------------------------------------------------------
(* The resolver's contract, under Spec *)

\* the identifier an action refers to: element_id, else the legacy xpath_ref
ReferenceOf(action) ==
    IF Truthy(action.element_id) THEN action.element_id
    ELSE IF Truthy(action.xpath_ref) THEN action.xpath_ref
    ELSE None

\* the action carries xpath as its resolved xpath, in a field named xpath or
\* in xpath_ref, the field the primary branch writes
CarriesXPath(action, xpath) ==
    AttrOf(action, "xpath") = xpath \/ AttrOf(action, "xpath_ref") = xpath

\* C1: after the endpoint's resolve, every action that referred by element_id
\* to an identifier under which the compaction call of this request recorded
\* an xpath carries that xpath.
RoundTrip ==
    pc = "resolved" =>
        \A k \in 1..Len(original.actions) :
            \A e \in 1..Len(mapper.xpath_map) :
                original.actions[k].element_id = mapper.xpath_map[e][1] =>
                    CarriesXPath(response.actions[k], mapper.xpath_map[e][2])

\* C2: after the endpoint's resolve, an action that came without element_id
\* and with xpath_ref naming a key of the maps has raised no error and holds
\* the xpath and the selector that the same action with that identifier in
\* element_id is given.
LegacyResolvedAlike ==
    pc = "resolved" =>
        \A k \in 1..Len(original.actions) :
            LET action == original.actions[k]
                primary == resolve_action([action EXCEPT !.element_id = action.xpath_ref],
                                          XPathMapOf(returned), SelectorMapOf(returned))
            IN (/\ ~Truthy(action.element_id)
                /\ Truthy(action.xpath_ref)
                /\ \/ DictHas(XPathMapOf(returned), action.xpath_ref)
                   \/ DictHas(SelectorMapOf(returned), action.xpath_ref)) =>
                   /\ raised = None
                   /\ CarriesXPath(response.actions[k], primary.obj.xpath_ref)
                   /\ response.actions[k].selector = primary.obj.selector

\* C3: when an action of the response refers to an identifier that is a key
\* of neither map, the endpoint's resolve raises no error, the list keeps
\* its length, that action keeps its xpath_ref and selector, and every other
\* action that refers by element_id to a key of the maps has been resolved.
ResolutionMiss ==
    pc = "resolved" =>
        \A k \in 1..Len(original.actions) :
            (/\ ReferenceOf(original.actions[k]) # None
             /\ ~DictHas(XPathMapOf(returned), ReferenceOf(original.actions[k]))
             /\ ~DictHas(SelectorMapOf(returned), ReferenceOf(original.actions[k]))) =>
                /\ raised = None
                /\ Len(response.actions) = Len(original.actions)
                /\ response.actions[k] = original.actions[k]
                /\ \A j \in 1..Len(original.actions) :
                       Truthy(original.actions[j].element_id) =>
                           response.actions[j] =
                               resolve_action(original.actions[j], XPathMapOf(returned),
                                              SelectorMapOf(returned)).obj

\* C4: resolving an already resolved response once more, against the same
\* maps, leaves every field of every action, and the outcome of the call, as
\* the resolve before left them.
ResolveIdempotent ==
    pc = "resolved" =>
        /\ process_element_references(response, XPathMapOf(result),
                                      SelectorMapOf(result)).response = response
        /\ process_element_references(response, XPathMapOf(result),
                                      SelectorMapOf(result)).raised = raised

\* the resolver has run twice on a response in which it filled the locator
\* of an action given by element_id, next to an action it had nothing to do on
ResolveIdempotentWitness ==
    /\ pc = "resolved"
    /\ calls = 2
    /\ raised = None
    /\ Len(response.actions) = 2
    /\ \E k \in 1..Len(response.actions) :
          /\ Truthy(original.actions[k].element_id)
          /\ response.actions[k].xpath_ref # original.actions[k].xpath_ref
          /\ response.actions[k].selector # original.actions[k].selector
    /\ \E k \in 1..Len(response.actions) : response.actions[k] = original.actions[k]

\* C5: resolve leaves xpath_map and selector_map as compaction returned them,
\* and the response keeps its number of actions, each action its type,
\* element_id, text, amount and url in the same position, and the response
\* its current_state and is_done.
ResolveFrame ==
    pc = "resolved" =>
        /\ XPathMapOf(result) = XPathMapOf(returned)
        /\ SelectorMapOf(result) = SelectorMapOf(returned)
        /\ Len(response.actions) = Len(original.actions)
        /\ \A k \in 1..Len(response.actions) :
               \A field \in {"type", "element_id", "text", "amount", "url"} :
                   response.actions[k][field] = original.actions[k][field]
        /\ response.current_state = original.current_state
        /\ response.is_done = original.is_done

\* a response of two actions, one of them with text, whose locators the
\* resolver has filled from non-empty maps
ResolveFrameWitness ==
    /\ pc = "resolved"
    /\ XPathMapOf(returned) # <<>>
    /\ SelectorMapOf(returned) # <<>>
    /\ Len(response.actions) = 2
    /\ \E k \in 1..Len(response.actions) : response.actions[k].text # None
    /\ \E k \in 1..Len(response.actions) :
          /\ response.actions[k].xpath_ref # original.actions[k].xpath_ref
          /\ response.actions[k].selector # original.actions[k].selector

-----------------------------------------------------------------------------
(* The parser's error policy, under SpecParse *)

\* every entry of g is a key with an element node or a text node
IsGraph(g) ==
    \A i \in 1..Len(g) :
        /\ Len(g[i]) = 2
        /\ g[i][2].cls \in {"DOMElementNode", "DOMTextNode"}

\* C11: parse_dom hands its caller a graph whatever the document and
\* whatever fails inside it; the graph is empty for a document without body
\* and for a run whose failure is caught at the top level.
ParseNeverRaises ==
    pc = "parsed" =>
        /\ IsGraph(graph)
        /\ BodyPaths(soup) = <<>> => graph = <<>>
        /\ injected.fatal => graph = <<>>

\* a document that holds an element and a text but no body has been parsed
ParseNeverRaisesWitness ==
    /\ pc = "parsed"
    /\ BodyPaths(soup) = <<>>
    /\ \E p \in NodePaths(soup, <<>>) : p # <<>> /\ IsTag(NodeAt(soup, p))
    /\ \E p \in NodePaths(soup, <<>>) : ~IsTag(NodeAt(soup, p))
    /\ graph = <<>>

\* q is met before p when the tree is walked in document order
PathBefore(q, p) ==
    \/ Len(q) < Len(p) /\ SubSeq(p, 1, Len(q)) = q
    \/ \E i \in 1..Len(q) :
          /\ i <= Len(p)
          /\ SubSeq(q, 1, i - 1) = SubSeq(p, 1, i - 1)
          /\ q[i] < p[i]

\* the identifier process_node hands to the node at p when no node before it
\* fails: every node met takes one, the skipped ones too (lines 69-70)
NodeIdAt(root, p) ==
    Cardinality({q \in NodePaths(root, BodyPaths(root)[1]) : PathBefore(q, p)})

\* the graph g with the node under key changed to node
WithNode(g, key, node) ==
    [i \in 1..Len(g) |-> IF g[i][1] = key THEN <<key, node>> ELSE g[i]]

\* C12: when the XPath computation of one element of the body fails, the
\* graph is the graph of the undisturbed parse with that element's xpath
\* replaced by "/" followed by its tag name; when the attribute extraction
\* of one element fails, the graph is the graph of the undisturbed parse
\* with that element's attributes cut at the failure.  In both cases the
\* element, its children and every other node are in the graph.
NodeFailureLocal ==
    pc = "parsed" =>
        LET clean == parse_dom(soup, NoFaults)
        IN /\ \A p \in injected.xpath :
                  (BodyPaths(soup) # <<>> /\ p \in NodePaths(soup, BodyPaths(soup)[1])) =>
                      /\ DictHas(clean, Str(NodeIdAt(soup, p)))
                      /\ graph = WithNode(clean, Str(NodeIdAt(soup, p)),
                                     [DictGet(clean, Str(NodeIdAt(soup, p)), None)
                                         EXCEPT !.xpath = <<"/">> \o Lower(NodeAt(soup, p).name)])
           /\ \A f \in injected.attributes :
                  (BodyPaths(soup) # <<>> /\ f[1] \in NodePaths(soup, BodyPaths(soup)[1])) =>
                      /\ DictHas(clean, Str(NodeIdAt(soup, f[1])))
                      /\ graph = WithNode(clean, Str(NodeIdAt(soup, f[1])),
                                     [DictGet(clean, Str(NodeIdAt(soup, f[1])), None)
                                         EXCEPT !.attributes =
                                             ExtractAttributes(
                                                 SubSeq(NodeAt(soup, f[1]).attrs, 1, f[2] - 1))])

-----------------------------------------------------------------------------
(* The registry of one compaction call, under SpecMapper *)

\* the position of the node with this key in the graph
PositionOf(key) == CHOOSE i \in 1..Len(graph) : graph[i][1] = key

\* C13: after a compaction call that went past its reset, a node of the
\* graph holds an identifier exactly when it is an element, isVisible is
\* true, and isInteractive is true or its lower-cased tag is one of input,
\* select, textarea, button, a; nothing but nodes of the graph holds one.
IdentifierIffInteractive ==
    (pc = "called" /\ graph # <<>>) =>
        /\ \A i \in 1..Len(graph) :
               DictHas(mapper.element_map, graph[i][1]) <=>
                   /\ graph[i][2].cls = "DOMElementNode"
                   /\ graph[i][2].isVisible
                   /\ \/ graph[i][2].isInteractive
                      \/ Lower(graph[i][2].tagName) \in
                             {s_input, s_select, s_textarea, s_button, s_a}
        /\ \A e \in 1..Len(mapper.element_map) : DictHas(graph, mapper.element_map[e][1])

\* a graph with a registered element, an invisible link, a visible element
\* that is not interactive and a text node has been compacted
IdentifierIffInteractiveWitness ==
    /\ pc = "called"
    /\ mapper.element_map # <<>>
    /\ \E i \in 1..Len(graph) :
          /\ graph[i][2].cls = "DOMElementNode"
          /\ ~graph[i][2].isVisible
          /\ Lower(graph[i][2].tagName) = s_a
    /\ \E i \in 1..Len(graph) :
          /\ graph[i][2].cls = "DOMElementNode"
          /\ graph[i][2].isVisible
          /\ ~DictHas(mapper.element_map, graph[i][1])
    /\ \E i \in 1..Len(graph) : graph[i][2].cls = "DOMTextNode"

\* C14: in one compaction call no identifier is given to two nodes, the
\* identifiers given are E1, E2, ..., En for the n registered nodes, and a
\* node met earlier in the graph holds the smaller number.
IdentifiersNeverReused ==
    (pc = "called" /\ graph # <<>>) =>
        /\ Len(mapper.element_map) = Cardinality(mapper.interactive_elements)
        /\ \A a, b \in 1..Len(mapper.element_map) :
               mapper.element_map[a][2] = mapper.element_map[b][2] => a = b
        /\ \A k \in 1..Len(mapper.element_map) :
               mapper.element_map[k][2] = <<"E">> \o Str(k)
        /\ \A a, b \in 1..Len(mapper.element_map) :
               a < b => PositionOf(mapper.element_map[a][1])
                            < PositionOf(mapper.element_map[b][1])

\* a call has registered three elements, with nodes that got no identifier
\* lying between them in the graph
IdentifiersNeverReusedWitness ==
    /\ pc = "called"
    /\ Len(mapper.element_map) >= 3
    /\ \E i \in 1..Len(graph) :
          /\ ~DictHas(mapper.element_map, graph[i][1])
          /\ PositionOf(mapper.element_map[1][1]) < i
          /\ i < PositionOf(mapper.element_map[2][1])

\* C15: each key of the returned xpath_map and of the returned selector_map
\* is the identifier of a node registered by this call, and the value under
\* it is that node's xpath, respectively the selector synthesized for that
\* node.
MapConsistency ==
    (pc = "called" /\ graph # <<>>) =>
        /\ \A k \in 1..Len(XPathMapOf(result)) :
               \E e \in 1..Len(mapper.element_map) :
                   /\ mapper.element_map[e][2] = XPathMapOf(result)[k][1]
                   /\ DictGet(graph, mapper.element_map[e][1], None).xpath
                          = XPathMapOf(result)[k][2]
        /\ \A k \in 1..Len(SelectorMapOf(result)) :
               \E e \in 1..Len(mapper.element_map) :
                   /\ mapper.element_map[e][2] = SelectorMapOf(result)[k][1]
                   /\ generate_selector(
                          mapper,
                          Lower(DictGet(graph, mapper.element_map[e][1], None).tagName),
                          DictGet(graph, mapper.element_map[e][1], None).attributes,
                          graph, mapper.element_map[e][1])
                          = SelectorMapOf(result)[k][2]

\* a call has returned an xpath map and a selector map of two keys or more
MapConsistencyWitness ==
    /\ pc = "called"
    /\ graph # <<>>
    /\ Len(XPathMapOf(result)) >= 2
    /\ Len(SelectorMapOf(result)) >= 2

Placeholders == {s_no_elements, s_no_root, s_no_interactive}

\* C17: an empty graph, a graph without discoverable root, and a graph with
\* no registered element and no qualifying standalone text each give their
\* placeholder summary with two empty maps; a summary that is a placeholder
\* always comes with two empty maps.
SentinelsCarryEmptyMaps ==
    pc = "called" =>
        /\ graph = <<>> => result = <<s_no_elements, <<>>, <<>> >>
        /\ (graph # <<>> /\ ~Truthy(find_root_element(mapper, graph))) =>
               result = <<s_no_root, <<>>, <<>> >>
        /\ (/\ graph # <<>>
            /\ Truthy(find_root_element(mapper, graph))
            /\ mapper.element_map = <<>>
            /\ extract_standalone_text(mapper, graph) = <<>>) =>
               result = <<s_no_interactive, <<>>, <<>> >>
        /\ result[1] \in Placeholders =>
               XPathMapOf(result) = <<>> /\ SelectorMapOf(result) = <<>>
        /\ (XPathMapOf(result) # <<>> \/ SelectorMapOf(result) # <<>>) =>
               result[1] \notin Placeholders

\* a call that registered an element with xpath and selector has answered
\* with the no-root placeholder
SentinelsCarryEmptyMapsWitness ==
    /\ pc = "called"
    /\ result[1] = s_no_root
    /\ mapper.xpath_map # <<>>
    /\ mapper.selector_map # <<>>

\* C19: a compaction call leaves the graph it was given as it was: the same
\* keys in the same order, every node with the same tag, attributes, xpath,
\* children, flags and text.
GraphUnmodified ==
    pc = "called" => graph = original

\* a call has registered an element and given it the text of a text node
GraphUnmodifiedWitness ==
    /\ pc = "called"
    /\ graph # <<>>
    /\ \E i \in 1..Len(graph) :
          /\ graph[i][2].cls = "DOMTextNode"
          /\ has_highlighted_parent(mapper, graph[i][1])

\* a registered link to "/x" with no id, no data-* test attribute and no
\* specific class, whose parent is in the graph and has no id
IsPlainLink(key) ==
    /\ DictHas(mapper.element_map, key)
    /\ Lower(DictGet(graph, key, None).tagName) = s_a
    /\ DictGet(DictGet(graph, key, None).attributes, s_href, None) = s_x
    /\ \A attr \in {s_id, s_class, s_data_testid, s_data_cy, s_data_test, s_data_qa} :
           ~DictHas(DictGet(graph, key, None).attributes, attr)
    /\ DictHas(mapper.parent_map, key)
    /\ DictHas(graph, DictGet(mapper.parent_map, key, None))
    /\ ~DictHas(DictGet(graph, DictGet(mapper.parent_map, key, None), None).attributes, s_id)

\* the selector returned for the node with this key
SelectorOf(key) ==
    DictGet(SelectorMapOf(result), DictGet(mapper.element_map, key, None), None)

\* C16: two links to "/x" without id, data-* test attribute or specific
\* class, under one parent without id, get the selectors
\* parentTag > a:nth-of-type(k), k the link's position among the parent's
\* a children, and so two different selectors.
LinksSelectedByPosition ==
    (pc = "called" /\ graph # <<>>) =>
        \A i, j \in 1..Len(graph) :
            (/\ i # j
             /\ IsPlainLink(graph[i][1])
             /\ IsPlainLink(graph[j][1])
             /\ DictGet(mapper.parent_map, graph[i][1], None)
                    = DictGet(mapper.parent_map, graph[j][1], None)) =>
                /\ SelectorOf(graph[i][1]) =
                       nth_of_type(
                           Lower(DictGet(graph, DictGet(mapper.parent_map, graph[i][1], None),
                                         None).tagName),
                           s_a,
                           same_tag_siblings(
                               graph,
                               DictGet(graph, DictGet(mapper.parent_map, graph[i][1], None),
                                       None).children,
                               s_a),
                           graph[i][1])
                /\ SelectorOf(graph[i][1]) # SelectorOf(graph[j][1])

-----------------------------------------------------------------------------
(* Whitespace-only text, under SpecParse *)

\* a text node of which strip() leaves nothing
IsBlankText(node) == node.cls = "DOMTextNode" /\ Strip(node.text) = <<>>

\* the graph without its whitespace-only text nodes, the children lists
\* without the numbers of these nodes
WithoutBlank(g) ==
    LET kept == SelectSeq(g, LAMBDA item : ~IsBlankText(item[2]))
    IN [i \in 1..Len(kept) |->
           <<kept[i][1],
             [kept[i][2] EXCEPT
                 !.children =
                     SelectSeq(@, LAMBDA c : ~(/\ DictHas(g, Str(c))
                                               /\ IsBlankText(DictGet(g, Str(c), None))))]>>]

\* C18: text that is empty after strip() never reaches the summary: parse_dom
\* stores no node for it, and in a compacted graph that holds such text nodes
\* the owned text of every registered element and the additional-text
\* entries are those of the graph without them.
BlankTextExcluded ==
    /\ pc = "parsed" => \A i \in 1..Len(graph) : ~IsBlankText(graph[i][2])
    /\ (pc = "compacted" /\ graph # <<>>) =>
           /\ \A e \in 1..Len(mapper.element_map) :
                  get_text_till_next_highlighted(mapper, mapper.element_map[e][1], graph)
                      = get_text_till_next_highlighted(mapper, mapper.element_map[e][1],
                                                       WithoutBlank(graph))
           /\ extract_standalone_text(mapper, graph)
                  = extract_standalone_text(mapper, WithoutBlank(graph))

\* a structure has been compacted in which a registered element has a visible
\* whitespace-only text between two texts of its own, and a visible text of
\* fifteen blanks or more belongs to no registered element
BlankTextExcludedWitness ==
    /\ pc = "compacted"
    /\ \E i \in 1..Len(graph) :
          /\ IsBlankText(graph[i][2])
          /\ graph[i][2].isVisible
          /\ has_highlighted_parent(mapper, graph[i][1])
    /\ \E i \in 1..Len(graph) :
          /\ IsBlankText(graph[i][2])
          /\ graph[i][2].isVisible
          /\ Len(graph[i][2].text) >= 15
          /\ ~has_highlighted_parent(mapper, graph[i][1])
    /\ mapper.element_map # <<>>
    /\ extract_standalone_text(mapper, graph) # <<>>

\* parse_dom has met a whitespace-only text inside a visible element and
\* stored the element and another text
BlankTextSkippedWitness ==
    /\ pc = "parsed"
    /\ \E p \in NodePaths(soup, <<>>) \ {<<>>} :
          /\ ~IsTag(NodeAt(soup, p))
          /\ NodeAt(soup, p).string # <<>>
          /\ Strip(NodeAt(soup, p).string) = <<>>
    /\ \E i \in 1..Len(graph) : graph[i][2].cls = "DOMTextNode"

-----------------------------------------------------------------------------
(* The loops of one compaction call, step by step: SpecWalk.  pc is        *)
(* "constructed" before the first call, "standalone" at the head of the    *)
(* loop of _extract_standalone_text, "walking" inside the while loop of    *)
(* _has_highlighted_parent, "returned" after the call.  walk holds the     *)
(* position i of the first loop, current_id of the second, the element     *)
(* lines and the text_sections gathered so far.  The owned-text traversal  *)
(* keeps a visited set and a depth limit (lines 183-187) and is evaluated  *)
(* as a whole.                                                             *)

\* children lists with a cycle: 1 lists 2 and 2 lists 1
PayloadCycle ==
    << << <<"0">>, DOMElementNode(s_body, <<>>, s_xpath_body, <<1>>, FALSE, TRUE, FALSE)>>,
       << <<"1">>, DOMElementNode(s_div, <<>>, s_xpath_div, <<2, 3>>, FALSE, TRUE, FALSE)>>,
       << <<"2">>, DOMElementNode(s_div, <<>>, s_xpath_div, <<1>>, FALSE, TRUE, FALSE)>>,
       << <<"3">>, DOMTextNode(s_fifteen, TRUE)>> >>

\* the same cycle with a button on it
PayloadCycleButton ==
    << << <<"0">>, DOMElementNode(s_body, <<>>, s_xpath_body, <<1>>, FALSE, TRUE, FALSE)>>,
       << <<"1">>, DOMElementNode(s_div, <<>>, s_xpath_div, <<2, 3>>, FALSE, TRUE, FALSE)>>,
       << <<"2">>, DOMElementNode(s_button, <<>>, s_xpath_a, <<1>>, TRUE, TRUE, FALSE)>>,
       << <<"3">>, DOMTextNode(s_fifteen, TRUE)>> >>

\* one text listed under two parents
PayloadShared ==
    << << <<"0">>, DOMElementNode(s_body, <<>>, s_xpath_body, <<1, 2>>, FALSE, TRUE, FALSE)>>,
       << <<"1">>, DOMElementNode(s_button, <<>>, s_xpath_a, <<3>>, TRUE, TRUE, TRUE)>>,
       << <<"2">>, DOMElementNode(s_div, <<>>, s_xpath_div, <<3>>, FALSE, TRUE, FALSE)>>,
       << <<"3">>, DOMTextNode(s_fifteen, TRUE)>> >>

WalkGraphs ==
    SampleGraphs \cup {PayloadBlank, PayloadCycle, PayloadCycleButton, PayloadShared}

InitWalk ==
    /\ pc = "constructed"
    /\ graph = <<>>
    /\ mapper = NewMapper(key_attributes, 10)
    /\ result = None
    /\ returned = None
    /\ response = None
    /\ original = None
    /\ raised = None
    /\ calls = 0
    /\ previous = None
    /\ soup = None
    /\ injected = None
    /\ requests = <<>>
    /\ instances = <<>>
    /\ walk = NoWalk
    /\ history = <<>>

\* create_highlight_representation, lines 40-67: the early returns, or the
\* registries, the element lines and the entry into _extract_standalone_text
EnterCall(dom_hashmap) ==
    /\ pc \in {"constructed", "returned"}
    /\ calls < MaxCalls
    /\ calls' = calls + 1
    /\ graph' = dom_hashmap
    /\ IF dom_hashmap = <<>>
       THEN /\ result' = <<s_no_elements, <<>>, <<>> >>
            /\ pc' = "returned"
            /\ UNCHANGED <<mapper, walk>>
       ELSE \E built \in {preprocess_dom(reset_registries(mapper), dom_hashmap)} :
               /\ mapper' = built
               /\ IF ~Truthy(find_root_element(built, dom_hashmap))
                  THEN /\ result' = <<s_no_root, <<>>, <<>> >>
                       /\ pc' = "returned"
                       /\ UNCHANGED walk
                  ELSE /\ walk' = [i |-> 1, current_id |-> None, text_sections |-> <<>>,
                                   output_lines |->
                                       element_lines(
                                           built, dom_hashmap,
                                           sorted_interactive(built,
                                                              built.interactive_elements))]
                       /\ pc' = "standalone"
                       /\ UNCHANGED result
    /\ UNCHANGED <<returned, response, original, raised, previous, soup, injected,
                   requests, instances, history>>

\* _extract_standalone_text, lines 293-301: the next item of dom_hashmap; a
\* visible text node starts the walk at its parent (line 166)
ExtractStandaloneText ==
    /\ pc = "standalone"
    /\ walk.i <= Len(graph)
    /\ IF /\ is_text_node(graph[walk.i][2])
          /\ get_attr(graph[walk.i][2], "isVisible", FALSE)
       THEN /\ walk' = [walk EXCEPT
                           !.current_id = DictGet(mapper.parent_map, graph[walk.i][1], None)]
            /\ pc' = "walking"
       ELSE /\ walk' = [walk EXCEPT !.i = @ + 1]
            /\ pc' = "standalone"
    /\ UNCHANGED <<graph, mapper, result, returned, response, original, raised, calls,
                   previous, soup, injected, requests, instances, history>>

\* the rest of the iteration of _extract_standalone_text (lines 301-312)
\* once _has_highlighted_parent has answered
text_sections_after(m, sections, element, highlighted) ==
    IF /\ ~highlighted
       /\ Strip(get_attr(element, "text", <<>>)) # <<>>
       /\ ~(Len(Strip(get_attr(element, "text", <<>>))) < 15)
    THEN Append(sections, standalone_line(m, Strip(get_attr(element, "text", <<>>))))
    ELSE sections

\* _has_highlighted_parent, lines 167-171: one test of the while condition;
\* the loop ends with False when current_id is falsy, with True when
\* current_id is registered, and goes on with the parent of current_id
\* otherwise
HasHighlightedParent ==
    /\ pc = "walking"
    /\ IF ~Truthy(walk.current_id) \/ walk.current_id \in mapper.interactive_elements
       THEN /\ walk' = [walk EXCEPT
                           !.i = @ + 1,
                           !.current_id = None,
                           !.text_sections =
                               text_sections_after(mapper, @, graph[walk.i][2],
                                                   Truthy(walk.current_id))]
            /\ pc' = "standalone"
       ELSE /\ walk' = [walk EXCEPT
                           !.current_id = DictGet(mapper.parent_map, walk.current_id, None)]
            /\ pc' = "walking"
    /\ UNCHANGED <<graph, mapper, result, returned, response, original, raised, calls,
                   previous, soup, injected, requests, instances, history>>

\* lines 68-78: the loop over dom_hashmap is through and the call returns
Return ==
    /\ pc = "standalone"
    /\ walk.i > Len(graph)
    /\ result' = returned_tuple(mapper, find_root_element(mapper, graph),
                                output_lines(walk.output_lines, walk.text_sections))
    /\ pc' = "returned"
    /\ UNCHANGED <<graph, mapper, returned, response, original, raised, calls, previous,
                   soup, injected, requests, instances, walk, history>>

NextWalk ==
    \/ \E dom_hashmap \in WalkGraphs : EnterCall(dom_hashmap)
    \/ ExtractStandaloneText
    \/ HasHighlightedParent
    \/ Return

\* the interpreter goes on executing the call
SpecWalk == InitWalk /\ [][NextWalk]_vars /\ WF_vars(NextWalk)

\* the steps give the value the call returns when it is evaluated as a whole
StepsAgree ==
    (pc = "returned" /\ graph \in SampleGraphs) =>
        result = create_highlight_representation(NewMapper(key_attributes, 10), graph).ret

\* C20: every compaction call that has been entered returns, whatever the
\* finite graph: children lists with a cycle and a node listed under several
\* parents included.
CompactionTerminates ==
    (pc \in {"standalone", "walking"}) ~> (pc = "returned")

-----------------------------------------------------------------------------
(* The order of the selector rules, under SpecMapper *)

\* the rules of _generate_selector for the node under key, in their order:
\* whether the rule applies, and the selector it gives
SelectorRules(key) ==
    LET node == DictGet(graph, key, None)
        tag == Lower(node.tagName)
        attrs == node.attributes
        parent_id == DictGet(mapper.parent_map, key, None)
        has_parent == Truthy(parent_id) /\ DictHas(graph, parent_id)
        parent == DictGet(graph, parent_id, node)
        siblings == same_tag_siblings(graph, parent.children, tag)
    IN << [holds |-> Truthy(DictGet(attrs, s_id, None)),
           selector |-> <<"#">> \o DictGet(attrs, s_id, <<>>)],
          [holds |-> FirstDataAttr(attrs) # None,
           selector |-> <<"[">> \o FirstDataAttr(attrs) \o <<"=","'">>
                        \o DictGet(attrs, FirstDataAttr(attrs), <<>>) \o <<"'","]">>],
          [holds |-> tag = s_input /\ (DictHas(attrs, s_type) \/ DictHas(attrs, s_name)),
           selector |-> tag \o input_parts(attrs)],
          [holds |-> /\ tag = s_a
                     /\ DictHas(attrs, s_href)
                     /\ Len(DictGet(attrs, s_href, <<>>)) < 50
                     /\ ~StartsWith(DictGet(attrs, s_href, <<>>), s_javascript),
           selector |-> <<"a","[","h","r","e","f","=","'">>
                        \o DictGet(attrs, s_href, <<>>) \o <<"'","]">>],
          [holds |-> SpecificClasses(attrs) # <<>>,
           selector |-> tag \o <<".">> \o Head(SpecificClasses(attrs) \o << <<>> >>)],
          [holds |-> has_parent /\ Truthy(DictGet(parent.attributes, s_id, None)),
           selector |-> <<"#">> \o DictGet(parent.attributes, s_id, <<>>)
                        \o <<" ",">"," ">> \o tag],
          [holds |-> has_parent /\ \E k \in 1..Len(siblings) : siblings[k] = key,
           selector |-> Lower(parent.tagName) \o <<" ",">"," ">> \o tag
                        \o <<":","n","t","h","-","o","f","-","t","y","p","e","(">>
                        \o Str(ListIndex(siblings \o <<key>>, key)) \o <<")">>],
          [holds |-> TRUE, selector |-> tag] >>

\* the number of the earliest rule that applies to the node under key
EarliestRule(key) ==
    CHOOSE k \in 1..8 :
        /\ SelectorRules(key)[k].holds
        /\ \A j \in 1..(k - 1) : ~SelectorRules(key)[j].holds

RuleAt(e) == EarliestRule(mapper.element_map[e][1])

-----------------------------------------------------------------------------
(* Which text belongs to which element, under SpecMapper *)

\* the places of the children lists of g that name the node under key
ListedAt(g, key) ==
    {pos \in (1..Len(g)) \X (1..Len(g)) :
        /\ pos[2] <= Len(g[pos[1]][2].children)
        /\ Str(g[pos[1]][2].children[pos[2]]) = key}

\* the ancestors of the node under key, the nearest first, over at most fuel
\* levels
RECURSIVE AncestorsOf(_, _, _)
AncestorsOf(g, key, fuel) ==
    IF fuel = 0 \/ ListedAt(g, key) = {} THEN <<>>
    ELSE LET parent_id == g[(CHOOSE pos \in ListedAt(g, key) : TRUE)[1]][1]
         IN <<parent_id>> \o AncestorsOf(g, parent_id, fuel - 1)

\* no node is listed twice and no node is its own ancestor
IsForest(g) ==
    \A i \in 1..Len(g) :
        /\ Cardinality(ListedAt(g, g[i][1])) <= 1
        /\ \A k \in 1..Len(AncestorsOf(g, g[i][1], Len(g))) :
               AncestorsOf(g, g[i][1], Len(g))[k] # g[i][1]

\* the registered ancestors of the node under key, the nearest first
RegisteredAncestors(key) ==
    SelectSeq(AncestorsOf(graph, key, Len(graph)),
              LAMBDA a : a \in mapper.interactive_elements)

\* the visible text nodes whose text collect_text has appended for elem_id
Contributors(elem_id) ==
    {key \in collect_text(mapper, graph, elem_id, elem_id, 0,
                          [visited |-> {}, text_parts |-> <<>>]).visited :
        /\ is_text_node(DictGet(graph, key, None))
        /\ DictGet(graph, key, None).isVisible
        /\ Strip(DictGet(graph, key, None).text) # <<>>}

\* C23: on a graph that is a tree, the text of a visible text node is part
\* of the extracted text of a registered element only if that element is its
\* nearest registered ancestor; so no text node gives its text to two
\* registered elements.
TextOwnership ==
    (pc = "called" /\ graph # <<>> /\ IsForest(graph)) =>
        /\ \A elem_id \in mapper.interactive_elements :
               \A key \in Contributors(elem_id) :
                   /\ RegisteredAncestors(key) # <<>>
                   /\ RegisteredAncestors(key)[1] = elem_id
        /\ \A a, b \in mapper.interactive_elements :
               a # b => Contributors(a) \cap Contributors(b) = {}

\* a registered element lies inside another one, each has visible text of
\* its own, and the outer one has text before and after the inner one
TextOwnershipWitness ==
    /\ pc = "called"
    /\ graph # <<>>
    /\ IsForest(graph)
    /\ \E a, b \in mapper.interactive_elements :
          /\ a # b
          /\ \E k \in 1..Len(AncestorsOf(graph, b, Len(graph))) :
                 AncestorsOf(graph, b, Len(graph))[k] = a
          /\ Cardinality(Contributors(a)) >= 2
          /\ Contributors(b) # {}

-----------------------------------------------------------------------------
(* The additional-text section, under SpecWalk *)

\* the positions in the graph of the text nodes that are visible, have no
\* registered element on their parent_map chain and whose stripped text has
\* 15 characters or more
ListedTexts ==
    SelectSeq([i \in 1..Len(graph) |-> i],
              LAMBDA i : /\ is_text_node(graph[i][2])
                         /\ graph[i][2].isVisible
                         /\ ~has_highlighted_parent(mapper, graph[i][1])
                         /\ Len(Strip(graph[i][2].text)) >= 15)

\* C24: when the loop of _extract_standalone_text is through, the entries
\* gathered are those of the visible text nodes without registered ancestor
\* on the parent_map chain and with a stripped text of 15 characters or more,
\* one entry each, and none of these nodes has given its text to a
\* registered element.
StandaloneTextListing ==
    (pc = "standalone" /\ walk.i > Len(graph)) =>
        /\ walk.text_sections =
               [k \in 1..Len(ListedTexts) |->
                   standalone_line(mapper, Strip(graph[ListedTexts[k]][2].text))]
        /\ \A elem_id \in mapper.interactive_elements :
               \A k \in 1..Len(ListedTexts) :
                   graph[ListedTexts[k]][1] \notin Contributors(elem_id)

-----------------------------------------------------------------------------
(* Long texts, under SpecTruncate: one compaction call after another on a  *)
(* structure that holds the same text twice, once inside a button and once *)
(* directly under the body.                                                *)

\* n letters
Letters(n) == [i \in 1..n |-> "x"]

\* {"0": body [1, 3], "1": button [2], "2": text, "3": text}
PayloadLong(n) ==
    << << <<"0">>, DOMElementNode(s_body, <<>>, s_xpath_body, <<1, 3>>, FALSE, TRUE, FALSE)>>,
       << <<"1">>, DOMElementNode(s_button, <<>>, s_xpath_a, <<2>>, TRUE, TRUE, TRUE)>>,
       << <<"2">>, DOMTextNode(Letters(n), TRUE)>>,
       << <<"3">>, DOMTextNode(Letters(n), TRUE)>> >>

\* lengths below, at and above max_text_length
TextLengths == {15, 497, 499, 500, 501, 502, 503, 504, 600}

NextTruncate ==
    \E n \in TextLengths : CreateHighlightRepresentation(PayloadLong(n))

SpecTruncate == InitMapper /\ [][NextTruncate]_vars

\* the summary of such a structure is the line [E1]<button TEXT/>, an empty
\* line, the heading and the entry - TEXT: the two texts as emitted
OwnedEmitted(summary) ==
    SubSeq(summary, 13, (CHOOSE i \in 13..Len(summary) :
                            /\ summary[i] = "/"
                            /\ \A j \in 13..(i - 1) : summary[j] # "/") - 1)

StandaloneEmitted(summary) ==
    SubSeq(summary, (CHOOSE i \in 1..Len(summary) :
                        /\ summary[i] = " "
                        /\ \A j \in (i + 1)..Len(summary) : summary[j] # " ") + 1,
           Len(summary))

\* C25: a text of at most max_text_length characters is emitted unchanged as
\* owned text and as standalone entry; a longer one is emitted cut, with a
\* trailing ellipsis, in the same length both times, and that length is at
\* most max_text_length.
TruncationCap ==
    (pc = "called" /\ graph # <<>>) =>
        /\ Len(graph[3][2].text) <= mapper.max_text_length =>
               /\ OwnedEmitted(result[1]) = graph[3][2].text
               /\ StandaloneEmitted(result[1]) = graph[3][2].text
        /\ Len(graph[3][2].text) > mapper.max_text_length =>
               /\ Len(OwnedEmitted(result[1])) = Len(StandaloneEmitted(result[1]))
               /\ Len(OwnedEmitted(result[1])) <= mapper.max_text_length
               /\ Len(StandaloneEmitted(result[1])) <= mapper.max_text_length

-----------------------------------------------------------------------------
(* The isInteractive flag, under SpecParse *)

\* the tags below the body of the parsed document, the body included
StoredTags ==
    IF BodyPaths(soup) = <<>> THEN {}
    ELSE {p \in NodePaths(soup, BodyPaths(soup)[1]) : IsTag(NodeAt(soup, p))}

\* the flag parse_dom has stored for the tag at p
FlagAt(p) == DictGet(graph, Str(NodeIdAt(soup, p)), None).isInteractive

HasTagOrRole(element) ==
    \/ Lower(element.name) \in interactive_elements
    \/ TagGetStr(element, s_role, <<>>) \in interactive_roles
    \/ TagGetStr(element, s_aria_role, <<>>) \in interactive_roles

\* the class and the data-action values filters.py treats like a role
HasSiteMark(element) ==
    \/ \E i \in 1..Len(ClassNames(element)) : ClassNames(element)[i] = s_address_input
    \/ TagGetStr(element, s_data_action, None) \in {s_dropdown_select, s_dropdown_button}

HasTabIndex(element) ==
    HasAttr(element, s_tabindex) /\ TagGetStr(element, s_tabindex, None) # s_minus_one

HasHeuristic(element) ==
    \/ \E a \in {s_onclick, s_ng_click, s_at_click, s_v_on_click,
                 s_aria_expanded, s_aria_pressed, s_aria_selected, s_aria_checked} :
           HasAttr(element, a)
    \/ TagGetStr(element, s_draggable, None) = s_true

\* a parse in which no node was dropped: nothing failed, or only evaluations
\* of is_interactive_element did
FlagsComparable ==
    pc = "parsed" /\ [injected EXCEPT !.interactive = {}] = NoFaults

\* C26 as stated: the body is never interactive; a direct child of the body
\* is interactive only through its tag or role; any other element is
\* interactive if its tag or role is in the sets, or it has a tabindex other
\* than "-1", a click-handler attribute, an aria state attribute or
\* draggable="true"; a failed evaluation gives false.
InteractiveRuleAsStated ==
    FlagsComparable =>
        \A p \in StoredTags :
            /\ p \in injected.interactive => ~FlagAt(p)
            /\ Lower(NodeAt(soup, p).name) = s_body => ~FlagAt(p)
            /\ (/\ Lower(NodeAt(soup, p).name) # s_body
                /\ Lower(NodeAt(soup, Parent(p)).name) = s_body) =>
                   (FlagAt(p) => HasTagOrRole(NodeAt(soup, p)))
            /\ (/\ p \notin injected.interactive
                /\ Lower(NodeAt(soup, p).name) # s_body
                /\ Lower(NodeAt(soup, Parent(p)).name) # s_body) =>
                   ((\/ HasTagOrRole(NodeAt(soup, p))
                     \/ HasTabIndex(NodeAt(soup, p))
                     \/ HasHeuristic(NodeAt(soup, p))) => FlagAt(p))

\* C26, amended: the body is never interactive; a direct child of the body
\* is interactive exactly when its tag or role is in the sets or it carries
\* the address-input class or an a-dropdown data-action; any other element
\* is interactive exactly when one of these holds or it has a tabindex other
\* than "-1", a click-handler attribute, an aria state attribute or
\* draggable="true"; a failed evaluation gives false.
InteractiveRule ==
    FlagsComparable =>
        \A p \in StoredTags :
            IF p \in injected.interactive \/ Lower(NodeAt(soup, p).name) = s_body
            THEN ~FlagAt(p)
            ELSE IF Lower(NodeAt(soup, Parent(p)).name) = s_body
            THEN FlagAt(p) <=> (\/ HasTagOrRole(NodeAt(soup, p))
                                \/ HasSiteMark(NodeAt(soup, p)))
            ELSE FlagAt(p) <=> (\/ HasTagOrRole(NodeAt(soup, p))
                                \/ HasSiteMark(NodeAt(soup, p))
                                \/ HasTabIndex(NodeAt(soup, p))
                                \/ HasHeuristic(NodeAt(soup, p)))

\* a body with role, tabindex and onclick has been parsed, with direct
\* children that have only a tabindex, only a click handler, only an aria
\* state and only draggable="true"
InteractiveRuleWitness ==
    /\ pc = "parsed"
    /\ injected = NoFaults
    /\ BodyPaths(soup) # <<>>
    /\ HasTagOrRole(NodeAt(soup, BodyPaths(soup)[1]))
    /\ HasHeuristic(NodeAt(soup, BodyPaths(soup)[1]))
    /\ \A a \in {s_tabindex, s_onclick, s_aria_expanded, s_draggable} :
           \E p \in StoredTags :
               /\ Parent(p) = BodyPaths(soup)[1]
               /\ HasAttr(NodeAt(soup, p), a)
               /\ HasTabIndex(NodeAt(soup, p)) \/ HasHeuristic(NodeAt(soup, p))
               /\ ~FlagAt(p)

-----------------------------------------------------------------------------
(* The shape of a parse graph, under SpecParse *)

\* the identifiers under which the graph has a node
StoredIds == {n \in 0..Cardinality(NodePaths(soup, <<>>)) : DictHas(graph, Str(n))}

\* the places (parent, position) at which n stands in a children list
Listings(n) ==
    {<<m, a>> \in StoredIds \X (1..Cardinality(NodePaths(soup, <<>>))) :
        /\ ~is_text_node(DictGet(graph, Str(m), None))
        /\ a <= Len(DictGet(graph, Str(m), None).children)
        /\ DictGet(graph, Str(m), None).children[a] = n}

\* the nodes directly below the tag at p that a parse without failure stores,
\* in document order
StoredChildren(p) ==
    SelectSeq([k \in 1..Len(NodeAt(soup, p).contents) |-> Append(p, k)],
              LAMBDA q : IsTag(NodeAt(soup, q)) \/ Strip(NodeAt(soup, q).string) # <<>>)

\* C30: a parse graph with nodes is a tree rooted at the body: the body has
\* identifier 0, the smallest, and stands in no children list; every other
\* node stands in exactly one children list, once; the identifier of a parent
\* is smaller than those of its children; every children list is ascending,
\* and after a parse without failure it names the stored child nodes of the
\* element in the order of the document.
ParseTree ==
    (pc = "parsed" /\ graph # <<>>) =>
        /\ Cardinality(StoredIds) = Len(graph)
        /\ 0 \in StoredIds
        /\ DictGet(graph, Str(0), None).tagName = s_body
        /\ Listings(0) = {}
        /\ \A n \in StoredIds \ {0} : Cardinality(Listings(n)) = 1
        /\ \A n \in StoredIds : \A l \in Listings(n) : l[1] < n
        /\ \A m \in StoredIds :
               ~is_text_node(DictGet(graph, Str(m), None)) =>
                   \A a, b \in 1..Len(DictGet(graph, Str(m), None).children) :
                       a < b => DictGet(graph, Str(m), None).children[a]
                                    < DictGet(graph, Str(m), None).children[b]
        /\ injected = NoFaults =>
               \A p \in StoredTags :
                   DictGet(graph, Str(NodeIdAt(soup, p)), None).children
                       = [a \in 1..Len(StoredChildren(p)) |->
                              NodeIdAt(soup, StoredChildren(p)[a])]

\* a parse without failure has stored an element with two element children
\* that have children of their own, below the body
ParseTreeWitness ==
    /\ pc = "parsed"
    /\ injected = NoFaults
    /\ \E m \in StoredIds :
           /\ ~is_text_node(DictGet(graph, Str(m), None))
           /\ \E a, b \in 1..Len(DictGet(graph, Str(m), None).children) :
                  /\ a < b
                  /\ \A c \in {a, b} :
                         LET child == DictGet(graph,
                                          Str(DictGet(graph, Str(m), None).children[c]), None)
                         IN ~is_text_node(child) /\ child.children # <<>>

-----------------------------------------------------------------------------
(* optimizer.py: DOMOptimizer.  Scores are kept in hundredths, so that the  *)
(* sums of the source's 0.1, 1.5, 1.0, 2.0, ... are integers.                *)

s_login == <<"l","o","g","i","n">>
s_sign == <<"s","i","g","n">>
s_submit == <<"s","u","b","m","i","t">>
s_continue == <<"c","o","n","t","i","n","u","e">>
s_next == <<"n","e","x","t">>
s_search == <<"s","e","a","r","c","h">>
s_add == <<"a","d","d">>
s_buy == <<"b","u","y">>
s_cart == <<"c","a","r","t">>
s_checkout == <<"c","h","e","c","k","o","u","t">>
s_price == <<"p","r","i","c","e">>
s_register == <<"r","e","g","i","s","t","e","r">>
s_menu == <<"m","e","n","u">>
s_nav == <<"n","a","v">>
s_btn == <<"b","t","n">>
s_h1 == <<"h","1">>
s_h2 == <<"h","2">>
s_h3 == <<"h","3">>
s_header == <<"h","e","a","d","e","r">>
s_form == <<"f","o","r","m">>
s_fieldset == <<"f","i","e","l","d","s","e","t">>
s_label == <<"l","a","b","e","l">>
s_link == <<"l","i","n","k">>
s_checkbox == <<"c","h","e","c","k","b","o","x">>
s_radio == <<"r","a","d","i","o">>
s_tab == <<"t","a","b">>
s_menuitem == <<"m","e","n","u","i","t","e","m">>
s_combobox == <<"c","o","m","b","o","b","o","x">>
s_searchbox == <<"s","e","a","r","c","h","b","o","x">>
s_src == <<"s","r","c">>
s_alt == <<"a","l","t">>
s_summary == <<"s","u","m","m","a","r","y">>

Min(a, b) == IF a < b THEN a ELSE b

Max(a, b) == IF a > b THEN a ELSE b

\* DOMOptimizer(max_elements): lines 15-18
DOMOptimizer(max_elements) ==
    [max_elements |-> max_elements, max_text_length |-> 100, max_depth |-> 10]

\* isinstance(element, dict)
IsDict(element) == element.cls = "dict"

\* the keys of a node that is a dict
KeysOf(element) ==
    IF element.type = s_TEXT_NODE THEN TextFields ELSE ElementFields

\* element.get(key, default) on a node that is a dict
NodeGet(element, key, default) ==
    IF key \in KeysOf(element) THEN element[key] ELSE default

\* re.search(r'(w1|w2|...)', s, re.IGNORECASE) is not None
Search(words, s) == \E w \in words : Contains(Lower(s), w)

\* line 68
text_keywords ==
    {s_login, s_sign, s_submit, s_continue, s_next, s_search, s_add, s_buy,
     s_cart, s_checkout, s_price}

\* line 117
value_keywords ==
    {s_submit, s_login, s_register, s_search, s_menu, s_nav, s_button, s_btn,
     s_checkout, s_cart}

\* lines 64-70
text_score(element) ==
    LET text_value == Strip(NodeGet(element, "text", <<>>))
    IN Min(2 * Len(text_value), 100)
       + (IF Search(text_keywords, text_value) THEN 50 ELSE 0)

\* lines 111-120
RECURSIVE attribute_score(_)
attribute_score(attributes) ==
    IF attributes = <<>> THEN 0
    ELSE (IF attributes[1][1] \in {s_id, s_name, s_value, s_href, s_placeholder, s_aria_label}
          THEN 20 ELSE 0)
         + (IF Search(value_keywords, attributes[1][2]) THEN 30 ELSE 0)
         + attribute_score(Tail(attributes))

\* lines 77-133: the score of an element before it is clamped
element_score(element) ==
    LET attributes == NodeGet(element, "attributes", <<>>)
        tag_name == Lower(NodeGet(element, "tagName", <<>>))
        children_count == Len(NodeGet(element, "children", <<>>))
    IN 10
       + (IF NodeGet(element, "isInteractive", FALSE) THEN 150 ELSE 0)
       + (IF NodeGet(element, "isVisible", FALSE) THEN 100 ELSE -200)
       + (IF NodeGet(element, "isTopElement", FALSE) THEN 50 ELSE 0)
       + (IF tag_name \in {s_input, s_button, s_a, s_select, s_textarea} THEN 80 ELSE 0)
       + (IF tag_name \in {s_h1, s_h2, s_h3, s_nav, s_header} THEN 50 ELSE 0)
       + (IF tag_name \in {s_form, s_fieldset, s_label} THEN 30 ELSE 0)
       + attribute_score(attributes)
       + (IF DictGet(attributes, s_role, None)
                \in {s_button, s_link, s_checkbox, s_radio, s_tab, s_menuitem,
                     s_combobox, s_searchbox}
          THEN 40 ELSE 0)
       + (IF children_count > 0 THEN Min(3 * children_count, 30) ELSE 0)

\* _score_elements: the dict scores, in the order of dom_hashmap
RECURSIVE score_elements(_)
score_elements(dom_hashmap) ==
    IF dom_hashmap = <<>> THEN <<>>
    ELSE LET element_id == dom_hashmap[1][1]
             element == dom_hashmap[1][2]
             rest == score_elements(Tail(dom_hashmap))
         IN IF IsDict(element) /\ NodeGet(element, "type", None) = s_TEXT_NODE
            THEN IF /\ NodeGet(element, "isVisible", FALSE)
                    /\ Len(Strip(NodeGet(element, "text", <<>>))) > 3
                 THEN << <<element_id, text_score(element)>> >> \o rest
                 ELSE rest
            ELSE IF IsDict(element)
            THEN << <<element_id, Max(element_score(element), 0)>> >> \o rest
            ELSE rest

\* sorted(scores.items(), key=lambda x: x[1], reverse=True): the sort is
\* stable, items with equal scores keep their order
RECURSIVE sorted_by_score(_)
sorted_by_score(scores) ==
    IF scores = <<>> THEN <<>>
    ELSE LET i == CHOOSE i \in 1..Len(scores) :
                      /\ \A j \in 1..Len(scores) : scores[j][2] <= scores[i][2]
                      /\ \A j \in 1..(i - 1) : scores[j][2] < scores[i][2]
         IN <<scores[i]>>
            \o sorted_by_score(SubSeq(scores, 1, i - 1) \o SubSeq(scores, i + 1, Len(scores)))

\* lines 146-147
top_element_ids(self, scores) ==
    LET sorted_elements == sorted_by_score(scores)
    IN [i \in 1..Min(self.max_elements, Len(sorted_elements)) |-> sorted_elements[i][1]]

\* elem_id in children, for a key (a str) and a list of int: no int equals a str
KeyAmong(elem_id, children) ==
    \E a \in 1..Len(children) : FALSE

\* lines 153-157
get_parent_ids(dom_hashmap, elem_id) ==
    LET holders == {i \in 1..Len(dom_hashmap) :
                        /\ IsDict(dom_hashmap[i][2])
                        /\ KeyAmong(elem_id, NodeGet(dom_hashmap[i][2], "children", <<>>))}
    IN IF holders = {} THEN None
       ELSE dom_hashmap[CHOOSE i \in holders : \A j \in holders : i <= j][1]

\* lines 162-164
RECURSIVE with_parents(_, _, _)
with_parents(dom_hashmap, parent_id, included_ids) ==
    IF parent_id = None \/ parent_id \in included_ids THEN included_ids
    ELSE with_parents(dom_hashmap, get_parent_ids(dom_hashmap, parent_id),
                      included_ids \cup {parent_id})

\* lines 160-164, over the ids chosen
RECURSIVE with_parent_chains(_, _, _)
with_parent_chains(dom_hashmap, ids, included_ids) ==
    IF ids = <<>> THEN included_ids
    ELSE with_parent_chains(dom_hashmap, Tail(ids),
             with_parents(dom_hashmap, get_parent_ids(dom_hashmap, ids[1]), included_ids))

\* _filter_top_elements.  included_ids is a set of str, Python fixes no order
\* for it; the filtered dict is given here in the order of dom_hashmap.
filter_top_elements(self, dom_hashmap, scores) ==
    LET top == top_element_ids(self, scores)
        included_ids == with_parent_chains(dom_hashmap, top,
                                           {top[i] : i \in 1..Len(top)})
    IN SelectSeq(dom_hashmap, LAMBDA item : item[1] \in included_ids)

\* what a method gives: the value it returns, or the exception it raises
Returns(value) == [raised |-> None, value |-> value]

Raises(exception) == [raised |-> exception, value |-> None]

\* lines 203-206
important_attrs ==
    {s_id, s_name, s_class, s_type, s_value, s_href, s_src, s_placeholder,
     s_aria_label, s_role, s_title, s_alt}

\* lines 211-216
compressed_attrs(original_attrs) ==
    LET kept == SelectSeq(original_attrs, LAMBDA item : item[1] \in important_attrs)
    IN [i \in 1..Len(kept) |->
           <<kept[i][1],
             IF Len(kept[i][2]) > 100
             THEN Prefix(kept[i][2], 100) \o <<".",".",".">>
             ELSE kept[i][2]>>]

\* lines 180-219, for a node that is a DOMTextNode or a DOMElementNode
compressed(self, element) ==
    IF element.cls = "DOMTextNode"
    THEN [cls |-> "dict", tagName |-> None, attributes |-> <<>>, xpath |-> None,
          children |-> <<>>, isInteractive |-> FALSE, isVisible |-> element.isVisible,
          isTopElement |-> FALSE, type |-> s_TEXT_NODE,
          text |-> IF Len(element.text) > self.max_text_length
                   THEN Prefix(element.text, self.max_text_length) \o <<".",".",".">>
                   ELSE element.text]
    ELSE [cls |-> "dict", tagName |-> element.tagName,
          attributes |-> compressed_attrs(element.attributes), xpath |-> element.xpath,
          children |-> element.children, isInteractive |-> element.isInteractive,
          isVisible |-> element.isVisible, isTopElement |-> element.isTopElement,
          type |-> None, text |-> None]

\* _compress_elements: element.tagName (line 194) of a dict raises
compress_elements(self, dom_elements) ==
    IF \E i \in 1..Len(dom_elements) : IsDict(dom_elements[i][2])
    THEN Raises(<<"AttributeError">>)
    ELSE Returns([i \in 1..Len(dom_elements) |->
                     <<dom_elements[i][1], compressed(self, dom_elements[i][2])>>])

\* '/'.join(xpath.split('/')[:-1]): what stands before the last "/"
parent_xpath_of(xpath) ==
    LET slashes == {i \in 1..Len(xpath) : xpath[i] = "/"}
    IN IF slashes = {} THEN <<>>
       ELSE SubSeq(xpath, 1, (CHOOSE i \in slashes : \A j \in slashes : j <= i) - 1)

\* group_key.split(':')[-1]
after_last_colon(group_key) ==
    LET colons == {i \in 1..Len(group_key) : group_key[i] = ":"}
    IN IF colons = {} THEN group_key
       ELSE SubSeq(group_key, (CHOOSE i \in colons : \A j \in colons : j <= i) + 1,
                   Len(group_key))

\* group_key.split(':')[0]
before_first_colon(group_key) ==
    LET colons == {i \in 1..Len(group_key) : group_key[i] = ":"}
    IN IF colons = {} THEN group_key
       ELSE SubSeq(group_key, 1, (CHOOSE i \in colons : \A j \in colons : i <= j) - 1)

\* lines 228-241: element.xpath (line 232) of a dict raises
RECURSIVE element_groups(_, _)
element_groups(dom_elements, groups) ==
    IF dom_elements = <<>> THEN Returns(groups)
    ELSE LET elem_id == dom_elements[1][1]
             element == dom_elements[1][2]
             group_key == parent_xpath_of(element.xpath) \o <<":">> \o element.tagName
         IN IF element.cls = "DOMTextNode"
            THEN element_groups(Tail(dom_elements), groups)
            ELSE IF IsDict(element) THEN Raises(<<"AttributeError">>)
            ELSE element_groups(Tail(dom_elements),
                     DictSet(groups, group_key,
                             Append(DictGet(groups, group_key, <<>>), elem_id)))

\* line 273: any(dom_elements[id].get('isInteractive', False) for id in ids);
\* only a dict has get
RECURSIVE any_interactive(_, _)
any_interactive(dom_elements, ids) ==
    IF ids = <<>> THEN Returns(FALSE)
    ELSE IF ~IsDict(DictGet(dom_elements, ids[1], None)) THEN Raises(<<"AttributeError">>)
    ELSE IF NodeGet(DictGet(dom_elements, ids[1], None), "isInteractive", FALSE)
    THEN Returns(TRUE)
    ELSE any_interactive(dom_elements, Tail(ids))

s_summary_ == s_summary \o <<"_">>

s_summary_xpath == <<"/","[","s","u","m","m","a","r","y","]">>

s_similar == <<" ","s","i","m","i","l","a","r"," ">>

s_elements == <<" ","e","l","e","m","e","n","t","s">>

\* lines 267-277
summary_element(group_key, ids, is_interactive) ==
    [cls |-> "dict", tagName |-> s_summary,
     xpath |-> before_first_colon(group_key) \o s_summary_xpath,
     attributes |-> << <<s_summary,
                         Str(Len(ids)) \o s_similar \o after_last_colon(group_key)
                             \o s_elements>> >>,
     isInteractive |-> is_interactive, isVisible |-> TRUE, isTopElement |-> FALSE,
     children |-> <<>>, type |-> None, text |-> None]

\* lines 252-277: the loop over similar_groups; gives dom_elements with the
\* summaries and removed_ids
RECURSIVE summarise(_, _, _)
summarise(dom_elements, similar_groups, removed_ids) ==
    IF similar_groups = <<>>
    THEN Returns([dom_elements |-> dom_elements, removed_ids |-> removed_ids])
    ELSE LET group_key == similar_groups[1][1]
             ids == similar_groups[1][2]
             to_keep == {ids[1], ids[(Len(ids) \div 2) + 1], ids[Len(ids)]}
             removed == removed_ids \cup ({ids[i] : i \in 1..Len(ids)} \ to_keep)
             summary_id == s_summary_ \o Str(Cardinality(removed))
             is_interactive == any_interactive(dom_elements, ids)
         IN IF is_interactive.raised # None THEN Raises(is_interactive.raised)
            ELSE summarise(DictSet(dom_elements, summary_id,
                                   summary_element(group_key, ids, is_interactive.value)),
                           Tail(similar_groups), removed)

\* _deduplicate_elements
deduplicate_elements(dom_elements) ==
    LET groups == element_groups(dom_elements, <<>>)
    IN IF groups.raised # None THEN Raises(groups.raised)
       ELSE LET similar_groups == SelectSeq(groups.value, LAMBDA item : Len(item[2]) > 5)
                done == summarise(dom_elements, similar_groups, {})
            IN IF done.raised # None THEN Raises(done.raised)
               ELSE Returns(SelectSeq(done.value.dom_elements,
                                LAMBDA item : item[1] \notin done.value.removed_ids))

\* 'children' in element: a key of a dict; for a pydantic object the test
\* runs over its (field, value) pairs and finds no str
HasChildrenKey(element) == IsDict(element) /\ "children" \in KeysOf(element)

\* _structure_optimized_dom
structure_optimized_dom(dom_elements) ==
    [i \in 1..Len(dom_elements) |->
        IF HasChildrenKey(dom_elements[i][2])
        THEN <<dom_elements[i][1],
               [dom_elements[i][2] EXCEPT
                   !.children = SelectSeq(@, LAMBDA child_id :
                                                 DictHas(dom_elements, Str(child_id)))]>>
        ELSE dom_elements[i]]

\* optimize_dom_tree
optimize_dom_tree(self, dom_hashmap) ==
    IF dom_hashmap = <<>> THEN Returns(<<>>)
    ELSE LET element_scores == score_elements(dom_hashmap)
             filtered_elements == filter_top_elements(self, dom_hashmap, element_scores)
             compressed_elements == compress_elements(self, filtered_elements)
         IN IF compressed_elements.raised # None THEN compressed_elements
            ELSE LET deduplicated_elements ==
                         deduplicate_elements(compressed_elements.value)
                 IN IF deduplicated_elements.raised # None THEN deduplicated_elements
                    ELSE Returns(structure_optimized_dom(deduplicated_elements.value))

-----------------------------------------------------------------------------
(* optimizer.py: the methods of one DOMOptimizer, each called on a graph *)

\* <li class="hidden"></li>
HiddenItem == Tag(s_li, << <<s_class, AttrList(<<s_hidden>>)>> >>, <<>>)

EmptyItem == Tag(s_li, <<>>, <<>>)

\* <body><ul> six <li>, the third hidden </ul><a href="/x">x</a></body>
ListPage ==
    BeautifulSoup(<<Body(<<Tag(s_ul, <<>>, <<EmptyItem, EmptyItem, HiddenItem,
                                            EmptyItem, EmptyItem, EmptyItem>>),
                          LinkX>>)>>)

\* n elements with this tag under the element with this xpath, with the ids
\* from first on
Items(tag, parent_xpath, first, n) ==
    [a \in 1..n |->
        <<Str(first + a - 1),
          DOMElementNode(tag, <<>>,
                         parent_xpath \o <<"/">> \o tag \o <<"[">> \o Str(a) \o <<"]">>,
                         <<>>, FALSE, TRUE, TRUE)>>]

s_xpath_ul == s_xpath_body \o <<"/">> \o s_ul

\* a structure with a list of seven items, a list of six and a list of five
PayloadLists ==
    << << <<"0">>, DOMElementNode(s_body, <<>>, s_xpath_body, <<1, 9, 16>>, FALSE, TRUE, FALSE)>>,
       << <<"1">>, DOMElementNode(s_ul, <<>>, s_xpath_ul, <<2, 3, 4, 5, 6, 7, 8>>,
                                  FALSE, TRUE, FALSE)>> >>
    \o Items(s_li, s_xpath_ul, 2, 7)
    \o << << <<"9">>, DOMElementNode(s_div, <<>>, s_xpath_div, <<10, 11, 12, 13, 14, 15>>,
                                     FALSE, TRUE, FALSE)>> >>
    \o Items(s_p, s_xpath_div, 10, 6)
    \o << << Str(16), DOMElementNode(s_nav, <<>>, s_xpath_body \o <<"/">> \o s_nav,
                                     <<17, 18, 19, 20, 21>>, FALSE, TRUE, FALSE)>> >>
    \o Items(s_a, s_xpath_body \o <<"/">> \o s_nav, 17, 5)

\* the nodes of a graph as plain dicts (model_dump of every node)
Dumped(dom_hashmap) ==
    [i \in 1..Len(dom_hashmap) |->
        <<dom_hashmap[i][1], [dom_hashmap[i][2] EXCEPT !.cls = "dict"]>>]

\* the graphs of parse_dom and of the extension
TypedGraphs ==
    {parse_dom(SampleSoups[i], NoFaults) : i \in 1..Len(SampleSoups)}
    \cup {parse_dom(ListPage, NoFaults), PayloadLists}

PruneGraphs == TypedGraphs \cup {Dumped(g) : g \in TypedGraphs} \cup {<<>>}

\* values of max_elements: none, fewer than the nodes of a page, the default
Caps == {0, 1, 3, 150}

InitPrune ==
    /\ pc = "optimizer"
    /\ graph \in PruneGraphs
    /\ mapper \in {DOMOptimizer(max_elements) : max_elements \in Caps}
    /\ result = None
    /\ returned = None
    /\ response = None
    /\ original = None
    /\ raised = None
    /\ calls = 0
    /\ previous = None
    /\ soup = None
    /\ injected = NoFaults
    /\ requests = <<>>
    /\ instances = <<>>
    /\ walk = NoWalk
    /\ history = <<>>

\* what a call leaves: its value in result, its exception in raised
Outcome(method, outcome) ==
    /\ pc' = method
    /\ result' = outcome.value
    /\ raised' = outcome.raised
    /\ UNCHANGED <<graph, mapper, returned, response, original, calls, soup,
                   injected, requests, instances, walk, history>>

\* optimizer.optimize_dom_tree(graph)
OptimizeDomTree ==
    /\ pc = "optimizer"
    /\ previous' = previous
    /\ Outcome("optimize_dom_tree", optimize_dom_tree(mapper, graph))

\* lines 34-38: optimizer._filter_top_elements(graph, optimizer._score_elements(graph));
\* previous keeps top_element_ids
FilterTopElements ==
    /\ pc = "optimizer"
    /\ previous' = top_element_ids(mapper, score_elements(graph))
    /\ Outcome("_filter_top_elements",
               Returns(filter_top_elements(mapper, graph, score_elements(graph))))

\* optimizer._compress_elements(graph)
CompressElements ==
    /\ pc = "optimizer"
    /\ previous' = previous
    /\ Outcome("_compress_elements", compress_elements(mapper, graph))

\* optimizer._deduplicate_elements(graph)
DeduplicateElements ==
    /\ pc = "optimizer"
    /\ previous' = previous
    /\ Outcome("_deduplicate_elements", deduplicate_elements(graph))

\* optimizer._structure_optimized_dom(graph)
StructureOptimizedDom ==
    /\ pc = "optimizer"
    /\ previous' = previous
    /\ Outcome("_structure_optimized_dom", Returns(structure_optimized_dom(graph)))

NextPrune ==
    \/ OptimizeDomTree
    \/ FilterTopElements
    \/ CompressElements
    \/ DeduplicateElements
    \/ StructureOptimizedDom

SpecPrune == InitPrune /\ [][NextPrune]_vars

-----------------------------------------------------------------------------
(* Pruning, under SpecPrune *)

\* the graph holds the objects parse_dom builds, no dicts
IsParseGraph(g) == \A i \in 1..Len(g) : ~IsDict(g[i][2])

InvisibleNeverChosen ==
    pc = "_filter_top_elements" =>
        \A a \in 1..Len(previous) :
            LET element == DictGet(graph, previous[a], None)
            IN ~(element.type # s_TEXT_NODE /\ ~element.isVisible)

\* the positions of the elements of g that share parent xpath and tag with
\* the element at position i, in the order of g
GroupOf(g, i) ==
    SelectSeq([j \in 1..Len(g) |-> j],
              LAMBDA j : /\ g[j][2].type # s_TEXT_NODE
                         /\ g[j][2].tagName = g[i][2].tagName
                         /\ parent_xpath_of(g[j][2].xpath) = parent_xpath_of(g[i][2].xpath))

\* the nodes of d that are the summary of the group of the element at i of g
SummariesOf(d, g, i) ==
    {k \in 1..Len(d) :
        /\ ~DictHas(g, d[k][1])
        /\ d[k][2].tagName = s_summary
        /\ d[k][2].xpath = parent_xpath_of(g[i][2].xpath) \o s_summary_xpath
        /\ d[k][2].attributes =
               << <<s_summary, Str(Len(GroupOf(g, i))) \o s_similar \o g[i][2].tagName
                                   \o s_elements>> >>}

\* C28: _deduplicate_elements returns; of every group of more than 5 elements
\* that share parent xpath and tag exactly the first, the one at index
\* floor(n/2) and the last remain, and exactly one summary node reporting n
\* stands for the group; no two nodes of the result have the same key; the
\* elements of a group of 5 or fewer remain as they were.
DeduplicationKeepsThree ==
    pc = "_deduplicate_elements" =>
        /\ raised = None
        /\ \A k, l \in 1..Len(result) : result[k][1] = result[l][1] => k = l
        /\ \A i \in 1..Len(graph) :
               graph[i][2].type # s_TEXT_NODE =>
                   LET group == GroupOf(graph, i)
                       n == Len(group)
                   IN IF n > 5
                      THEN /\ DictHas(result, graph[i][1])
                                  <=> i \in {group[1], group[(n \div 2) + 1], group[n]}
                           /\ Cardinality(SummariesOf(result, graph, i)) = 1
                      ELSE /\ DictHas(result, graph[i][1])
                           /\ DictGet(result, graph[i][1], None) = graph[i][2]

-----------------------------------------------------------------------------
(* tasks.py, storage_service.py: the updates of one task, one after another *)

\* update_task requests served for the task
MaxUpdates == 2

\* json.dumps(value): a text, no dict
json_dumps(value) == [json |-> value]

\* json.loads(item)
json_loads(item) == item.json

\* StorageService.append_task_history: rpush of the JSON text of action_data
append_task_history(history_list, action_data) ==
    Append(history_list, json_dumps(action_data))

\* StorageService.get_task_history: lrange(redis_key, 0, -1), each item decoded
get_task_history(history_list) ==
    [i \in 1..Len(history_list) |-> json_loads(history_list[i])]

\* the record of one step as build_user_message reads it (prompts.py:90-91)
HistoryRecord(url, actions) == [url |-> url, actions |-> actions]

\* what the extension sends: dom_data.url and structure
UpdateUrls == {s_x, s_go}

UpdateStructures == {parse_dom(SampleSoups[1], NoFaults), parse_dom(SampleSoups[5], NoFaults)}

\* what generate() returns
UpdateAnswers == {answer \in Responses : Len(answer.actions) <= 1}

InitHistory ==
    /\ pc = "idle"
    /\ graph = <<>>
    /\ mapper = None
    /\ result = None
    /\ returned = None
    /\ response = None
    /\ original = None
    /\ raised = None
    /\ calls = 0
    /\ previous = <<>>
    /\ soup = None
    /\ injected = NoFaults
    /\ requests = <<>>
    /\ instances = <<>>
    /\ walk = NoWalk
    /\ history = <<>>

\* update_task, lines 30-105, for one request.  previous is task_history
\* (line 47), the history that build_user_message is given; requests lists
\* the url and the processed actions of the calls that returned
\* status="success"; a call whose resolver raises ends in HTTPException.
\* No line of the handler writes to Redis.
UpdateTask(url, element_tree, answer) ==
    /\ pc \in {"idle", "success", "error"}
    /\ calls < MaxUpdates
    /\ calls' = calls + 1
    /\ previous' = get_task_history(history)
    /\ LET built == generate_enhanced_highlight_dom(element_tree, key_attributes)
           done == process_element_references(answer, built.ret[2], built.ret[3])
       IN /\ graph' = built.dom_hashmap
          /\ mapper' = built.mapper
          /\ returned' = built.ret
          /\ result' = <<built.ret[1], done.xpath_map, done.selector_map>>
          /\ original' = answer
          /\ response' = done.response
          /\ raised' = done.raised
          /\ IF done.raised = None
             THEN /\ pc' = "success"
                  /\ requests' = Append(requests, HistoryRecord(url, done.response.actions))
             ELSE /\ pc' = "error"
                  /\ requests' = requests
    /\ UNCHANGED <<soup, injected, instances, walk, history>>

NextHistory ==
    \E url \in UpdateUrls, element_tree \in UpdateStructures, answer \in UpdateAnswers :
        UpdateTask(url, element_tree, answer)

SpecHistory == InitHistory /\ [][NextHistory]_vars

\* C29: the history of the task holds one record {url, processed actions}
\* for every update_task call that has returned success, in the order in
\* which the calls returned, and a call that has just returned success was
\* given the records of the calls before it as its history.
HistoryAccumulates ==
    /\ get_task_history(history) = requests
    /\ pc = "success" => previous = SubSeq(requests, 1, Len(requests) - 1)

=============================================================================
